---- MODULE Spec2Model ----
(***************************************************************************)
(* Verification model of the code generator (src/src/cli.ts: run and the   *)
(* Generator class; src/src/utils/apifox.ts: sortByWeights;                *)
(* src/src/ApifoxToYApiServer.ts: the adapter server).                     *)
(*                                                                         *)
(* The specifications of this module:                                  *)
(*   Spec          generate(): the nested fan-out over servers, projects,  *)
(*                 category configs, categories and interfaces, every      *)
(*                 awaited operation completing in any order, up to the    *)
(*                 point where run() calls write() or enters its catch;    *)
(*   SpecRun       run(): prepare -> generate -> write -> destroy -> hooks *)
(*                 with the adapter servers, the outcome of generate() and *)
(*                 write() being an input;                                 *)
(*   SpecCategory  the category id expansion of generate();                *)
(*   SpecSort      sortByWeights on bounded lists of weighted elements;    *)
(*   SpecSchema    processJsonSchema, jsonSchemaToJSTTJsonSchema,          *)
(*                 reachJsonSchema and jsonSchemaToType on bounded schemas;*)
(*   SpecNames     the function and type names of an interface;            *)
(*   SpecRequest   the file-download flag and the generated request call;  *)
(*   SpecInterface the interface tasks of one category, reading the request *)
(*                 and response bodies;                                    *)
(*   SpecFetch     fetchApi / httpGet and fetchApifoxOpenAPI against the    *)
(*                 answers of the upstream server;                         *)
(*   SpecApifox    prepare() and the url of the Apifox export request;     *)
(*   SpecWrite     write(): the shared request-function file;              *)
(*   SpecParams    getRequestDataJsonSchema: body, query, path merge;      *)
(*   SpecPrefix    generate(): the map over a fetched interface list;      *)
(*   SpecBuckets   generate(): the lazily created output buckets, two runs *)
(*                 of the same configuration side by side;                 *)
(*   SpecCall      processPathParams and the url of the request call;      *)
(*   SpecClean     cleanOutputDirectory on a small file system.            *)
(***************************************************************************)
EXTENDS Integers, Sequences, FiniteSets, TLC

\* ------------------------------------------------------------------------
\* Bounds
\* ------------------------------------------------------------------------
MaxTasks == 2          \* category tasks (server x project x token x category) of one run
MaxServers == 2        \* server configs of one run (SpecRun)
MaxIfaces == 2         \* interfaces of the larger remote category
MaxIdListLen == 2      \* length of a category config's id list
MaxTokens == 2         \* tokens of one project definition
MaxListLen == 3        \* length of a list handed to sortByWeights
MaxWeightLen == 2      \* length of one weight vector
MaxDepth == 2          \* nesting depth of a JSON schema
MaxSegments == 2       \* '/'-separated segments of an interface path
MaxPathParams == 1     \* {param} segments of the path of a request function
MaxInterfaceList == 2  \* interfaces of the category of SpecInterface
MaxCalls == 2          \* successive upstream requests of one run (SpecFetch)
MaxUrlParts == 3       \* path pieces of a configured Apifox serverUrl
MaxBuckets == 2        \* output files handed to write()
MaxProps == 2          \* query parameters, and path parameters, of an interface
MaxFetched == 2        \* interfaces of a fetched category
MaxCatTasks == 2       \* concurrent category tasks recording buckets
MaxPathPieces == 2     \* segments of the path of a request call
MaxGenerated == 2      \* previously generated files under outputDir

VARIABLES
    \* --- Spec: generate() ---
    shape,           \* the loaded configuration (never changes)
    pc,              \* position of run() around its call of generate()
    idArrays,        \* the configured categoryConfig.id arrays
    projTask,        \* per (server, project): position of the project task
    idTask,          \* per (server, project, category config, id): the category task
    catDone,         \* category-config tasks that have pushed their codes
    outputFileList,  \* outputFilePath -> bucket
    requests,        \* requests issued, per (api, serverUrl, token)
    projectCache,    \* keys of the memoize cache of fetchProject
    exportCache,     \* keys of the memoize cache of fetchExport
    \* --- SpecRun: run() ---
    serverTypes,     \* per server config: its serverType
    runPc,           \* position of run() in its try / catch sequence
    log,             \* the calls and failures of run(), in order
    adapter,         \* per server: state of its ApifoxToYApiServer
    disposes,        \* Generator.disposes (servers whose stop() is registered)
    \* --- SpecCategory ---
    cfgIdList,     \* categoryConfig.id, the configured array itself (castArray)
    origIdList,    \* the id list as written in the configuration file
    tokenIndex,    \* index of the token whose project is being processed
    projCats,      \* projectInfo.cats.map(cat => cat._id)
    categoryIds,   \* the expanded list, or NotYet
    \* --- SpecSort ---
    wIn,           \* the list as handed to sortByWeights
    wPermIn,       \* the same elements handed over in another order
    wList,         \* the first array (sorted in place and returned)
    wPerm,         \* the second array (sorted in place and returned)
    wSorted,       \* which of the two calls have returned
    \* --- SpecSchema ---
    sIn,           \* the schema handed to the function
    sTable,        \* customTypeMapping
    sPhase,        \* which functions have been applied
    sOnce,         \* processJsonSchema(sIn, sTable)
    sTwice,        \* processJsonSchema(sOnce, sTable)
    sPath,         \* the path handed to reachJsonSchema
    sReached,      \* reachJsonSchema(sOnce, sPath)
    sJsttIn,       \* the schema handed to jsonSchemaToJSTTJsonSchema
    sJstt,         \* what it returned
    sCaller,       \* the caller's schema object after jsonSchemaToType
    sCodes,        \* the declarations of the calls of jsonSchemaToType, in order
    \* --- SpecNames ---
    nMethod,       \* interfaceInfo.method
    nPath,         \* interfaceInfo.path
    nFunc,         \* getRequestFunctionName(interfaceInfo), or NoName
    nReq,          \* getRequestDataTypeName(interfaceInfo), or NoName
    nRes,          \* getReponseDataTypeName(interfaceInfo), or NoName
    \* --- SpecRequest ---
    rIface,        \* the interface whose request function is generated
    rPhase,        \* "in", "flagged" (isFileDownloadInterface returned), "generated"
    rFlag,         \* isDownloadInterface
    rArgs,         \* the arguments of the generated request.<method>(...) call
    \* --- SpecInterface ---
    iList,         \* interfaceList of one category task
    iTask,         \* per interface: position of its generateInterfaceCode call
    iResult,       \* generate(): "pending", "fulfilled" or "rejected"
    iCodes,        \* the interfaces whose code the fulfilled run returns
    \* --- SpecFetch ---
    fApi,          \* "fetchApi" (httpGet) or "fetchApifoxOpenAPI" (axios.post)
    fResponses,    \* what the upstream answers to the successive requests
    fCall,         \* index of the request under way
    fSent,         \* per request: how often it has been issued
    fPc,           \* "sent", "parsed" / "response", "done"
    fOutcome,      \* "pending", "returned" or "failed"
    fError,        \* the error of the failed fetch
    \* --- SpecApifox ---
    aConfig,       \* the apifox server config: serverUrl, apifoxProjectId
    aPc,           \* "prepare", "start" (adapter constructed), "posted", "failed"
    aOptions,      \* the options of the ApifoxToYApiServer
    aRequests,     \* the urls axios.post was called with, in order
    \* --- SpecWrite ---
    wBuckets,      \* the buckets of outputFileList: typesOnly, target
    wRequestPath,  \* requestFunctionFilePath of the buckets
    wFs0,          \* the files before write()
    wFs,           \* the files
    wTask,         \* per bucket: position of its task in write()
    wWrites,       \* the outputFile calls on a request file: bucket, path, absentAtCheck
    \* --- SpecParams ---
    qIface,        \* the interface: method, body, req_query, req_params
    qSchema,       \* the schema getRequestDataJsonSchema returned
    qPc,           \* "start" | "done"
    \* --- SpecPrefix ---
    xConfig,       \* syntheticalConfig: pathPrefix, preproccessInterface
    xFetched,      \* the interfaces as fetchInterfaceList returned them
    xHeap,         \* the interface objects: the fetched ones, then the clones
    xList,         \* interfaceList after the map: heap references, 0 for a falsy result
    xNames,        \* the request function names generated from the list
    xPc,           \* "map" | "synth" | "done"
    \* --- SpecBuckets ---
    kTasks,        \* per category task: its syntheticalConfig and output path
    kDone,         \* per run: the tasks whose continuation has run
    kBuckets,      \* per run: outputFileList, output path -> recorded values
    \* --- SpecCall ---
    cPath,         \* extendedInterfaceInfo.path
    cDownload,     \* isDownloadInterface
    cCall,         \* the generated call: url text and argument list
    cPc,           \* "start" | "done"
    \* --- SpecClean ---
    dConfig,       \* config[0]: outputDir, requestFunctionFilePath
    dFs0,          \* the files before cleanOutputDirectory
    dFs,           \* the files
    dDirExists,    \* the output directory exists
    dContent,      \* the local requestFileContent
    dWarned,       \* an error was caught and logged
    dPc            \* position in cleanOutputDirectory

genVars == <<shape, pc, idArrays, projTask, idTask, catDone, outputFileList,
             requests, projectCache, exportCache>>
runVars == <<serverTypes, runPc, log, adapter, disposes>>
catVars == <<cfgIdList, origIdList, tokenIndex, projCats, categoryIds>>
sortVars == <<wIn, wPermIn, wList, wPerm, wSorted>>
schemaVars == <<sIn, sTable, sPhase, sOnce, sTwice, sPath, sReached, sJsttIn, sJstt,
                sCaller, sCodes>>
namesVars == <<nMethod, nPath, nFunc, nReq, nRes>>
requestVars == <<rIface, rPhase, rFlag, rArgs>>
ifaceVars == <<iList, iTask, iResult, iCodes>>
fetchVars == <<fApi, fResponses, fCall, fSent, fPc, fOutcome, fError>>
apifoxVars == <<aConfig, aPc, aOptions, aRequests>>
writeVars == <<wBuckets, wRequestPath, wFs0, wFs, wTask, wWrites>>
paramsVars == <<qIface, qSchema, qPc>>
prefixVars == <<xConfig, xFetched, xHeap, xList, xNames, xPc>>
bucketVars == <<kTasks, kDone, kBuckets>>
callVars == <<cPath, cDownload, cCall, cPc>>
cleanVars == <<dConfig, dFs0, dFs, dDirExists, dContent, dWarned, dPc>>
utilVars == <<schemaVars, namesVars, requestVars, ifaceVars, fetchVars, apifoxVars,
              writeVars, paramsVars, prefixVars, bucketVars, callVars, cleanVars>>
vars == <<genVars, runVars, catVars, sortVars, utilVars>>

EmptyMap == [x \in {} |-> 0]

RunIdle ==
    /\ serverTypes = <<>>
    /\ runPc = "idle"
    /\ log = <<>>
    /\ adapter = <<>>
    /\ disposes = <<>>

GenerateIdle ==
    /\ shape = EmptyMap
    /\ pc = "idle"
    /\ idArrays = EmptyMap
    /\ projTask = EmptyMap
    /\ idTask = EmptyMap
    /\ catDone = {}
    /\ outputFileList = EmptyMap
    /\ requests = EmptyMap
    /\ projectCache = {}
    /\ exportCache = {}

SchemaIdle ==
    /\ sIn = <<>>
    /\ sTable = <<>>
    /\ sPhase = "idle"
    /\ sOnce = <<>>
    /\ sTwice = <<>>
    /\ sPath = <<>>
    /\ sReached = <<>>
    /\ sJsttIn = <<>>
    /\ sJstt = <<>>
    /\ sCaller = <<>>
    /\ sCodes = <<>>

NoName == <<>>

NamesIdle ==
    /\ nMethod = <<>>
    /\ nPath = <<>>
    /\ nFunc = NoName
    /\ nReq = NoName
    /\ nRes = NoName

RequestIdle ==
    /\ rIface = <<>>
    /\ rPhase = "idle"
    /\ rFlag = FALSE
    /\ rArgs = <<>>

InterfaceIdle ==
    /\ iList = <<>>
    /\ iTask = <<>>
    /\ iResult = "idle"
    /\ iCodes = <<>>

FetchIdle ==
    /\ fApi = "idle"
    /\ fResponses = <<>>
    /\ fCall = 0
    /\ fSent = <<>>
    /\ fPc = "idle"
    /\ fOutcome = "idle"
    /\ fError = <<>>

ApifoxIdle ==
    /\ aConfig = <<>>
    /\ aPc = "idle"
    /\ aOptions = <<>>
    /\ aRequests = <<>>

WriteIdle ==
    /\ wBuckets = <<>>
    /\ wRequestPath = ""
    /\ wFs0 = <<>>
    /\ wFs = <<>>
    /\ wTask = <<>>
    /\ wWrites = {}

ParamsIdle ==
    /\ qIface = <<>>
    /\ qSchema = <<>>
    /\ qPc = "idle"

PrefixIdle ==
    /\ xConfig = <<>>
    /\ xFetched = <<>>
    /\ xHeap = <<>>
    /\ xList = <<>>
    /\ xNames = <<>>
    /\ xPc = "idle"

BucketsIdle ==
    /\ kTasks = <<>>
    /\ kDone = <<>>
    /\ kBuckets = <<>>

CallIdle ==
    /\ cPath = <<>>
    /\ cDownload = FALSE
    /\ cCall = <<>>
    /\ cPc = "idle"

CleanIdle ==
    /\ dConfig = <<>>
    /\ dFs0 = <<>>
    /\ dFs = <<>>
    /\ dDirExists = FALSE
    /\ dContent = ""
    /\ dWarned = FALSE
    /\ dPc = "idle"

\* the variables of the utility specifications other than `spec` are idle
OtherUtilIdle(spec) ==
    /\ spec # "schema" => SchemaIdle
    /\ spec # "names" => NamesIdle
    /\ spec # "request" => RequestIdle
    /\ spec # "interface" => InterfaceIdle
    /\ spec # "fetch" => FetchIdle
    /\ spec # "apifox" => ApifoxIdle
    /\ spec # "write" => WriteIdle
    /\ spec # "params" => ParamsIdle
    /\ spec # "prefix" => PrefixIdle
    /\ spec # "buckets" => BucketsIdle
    /\ spec # "call" => CallIdle
    /\ spec # "clean" => CleanIdle

UtilIdle == OtherUtilIdle("none")

NotYet == "notyet"

\* ------------------------------------------------------------------------
\* Sequence helpers
\* ------------------------------------------------------------------------
Range(s) == {s[i] : i \in DOMAIN s}

SeqsUpTo(S, n) == UNION {[1..k -> S] : k \in 0..n}

Abs(n) == IF n < 0 THEN -n ELSE n

Min2(a, b) == IF a < b THEN a ELSE b

Max2(a, b) == IF a > b THEN a ELSE b

RECURSIVE FilterSeq(_, _)
\* Array.prototype.filter with the kept set given extensionally
FilterSeq(s, keep) ==
    IF s = <<>> THEN <<>>
    ELSE IF Head(s) \in keep THEN <<Head(s)>> \o FilterSeq(Tail(s), keep)
         ELSE FilterSeq(Tail(s), keep)

RECURSIVE Uniq(_)
\* lodash uniq: keeps the first occurrence of every value
Uniq(s) ==
    IF s = <<>> THEN <<>>
    ELSE <<Head(s)>> \o Uniq(FilterSeq(Tail(s), Range(s) \ {Head(s)}))

\* ------------------------------------------------------------------------
\* Array.prototype.sort() without a comparator: elements are ordered by
\* their string conversions, compared by UTF-16 code unit.
\* ------------------------------------------------------------------------
RECURSIVE DigitCodes(_)
DigitCodes(n) ==
    IF n < 10 THEN <<48 + n>>
    ELSE DigitCodes(n \div 10) \o <<48 + (n % 10)>>

\* Number.prototype.toString as a sequence of code units ("-" is 45)
NumberToString(n) == IF n < 0 THEN <<45>> \o DigitCodes(-n) ELSE DigitCodes(n)

RECURSIVE StrLess(_, _)
StrLess(a, b) ==
    IF b = <<>> THEN FALSE
    ELSE IF a = <<>> THEN TRUE
    ELSE IF Head(a) # Head(b) THEN Head(a) < Head(b)
    ELSE StrLess(Tail(a), Tail(b))

\* the order a plain numeric comparison would give
NumericLess(a, b) == a < b

\* the order of sort() with no comparator
DefaultSortLess(a, b) == StrLess(NumberToString(a), NumberToString(b))

RECURSIVE InsertDefault(_, _)
InsertDefault(sortedSeq, x) ==
    IF sortedSeq = <<>> THEN <<x>>
    ELSE IF DefaultSortLess(x, Head(sortedSeq)) THEN <<x>> \o sortedSeq
    ELSE <<Head(sortedSeq)>> \o InsertDefault(Tail(sortedSeq), x)

RECURSIVE DefaultSort(_)
DefaultSort(s) ==
    IF s = <<>> THEN <<>>
    ELSE InsertDefault(DefaultSort(SubSeq(s, 1, Len(s) - 1)), s[Len(s)])

\* ------------------------------------------------------------------------
\* Category expansion (Generator.generate, per category config)
\* ------------------------------------------------------------------------
\* categoryIds.push(...cats) when the list includes 0
PushAllCategories(ids, cats) ==
    IF 0 \in Range(ids) THEN ids \o cats ELSE ids

ExcludedCategoryIds(ids) == {Abs(ids[i]) : i \in {j \in DOMAIN ids : ids[j] < 0}}

\* a variant that forgets the exclusion of negative ids
ExpandNoExclusion(ids, cats) ==
    DefaultSort(FilterSeq(Uniq(PushAllCategories(ids, cats)), Range(cats)))

ExpandCategoryIds(ids, cats) ==
    LET pushed == Uniq(PushAllCategories(ids, cats))
        excluded == ExcludedCategoryIds(pushed)
        kept == FilterSeq(pushed, {id \in Range(pushed) : Abs(id) \notin excluded})
        known == FilterSeq(kept, Range(cats))
    IN DefaultSort(known)

ConfigIdUniverse == {-3, 0, 1, 2, 3, 10}

CatIdUniverse == {2, 3, 10}

IsInjective(s) == \A i, j \in DOMAIN s : s[i] = s[j] => i = j

CatMenus == {s \in SeqsUpTo(CatIdUniverse, Cardinality(CatIdUniverse)) : IsInjective(s)}

CategoryIdle ==
    /\ cfgIdList = <<>>
    /\ origIdList = <<>>
    /\ projCats = <<>>
    /\ categoryIds = NotYet
    /\ tokenIndex = 0

SortIdle ==
    /\ wIn = <<>>
    /\ wPermIn = <<>>
    /\ wList = <<>>
    /\ wPerm = <<>>
    /\ wSorted = {}

InitCategory ==
    /\ cfgIdList \in SeqsUpTo(ConfigIdUniverse, MaxIdListLen) \ {<<>>}
    /\ origIdList = cfgIdList
    /\ projCats \in CatMenus
    /\ categoryIds = NotYet
    /\ tokenIndex = 0
    /\ SortIdle
    /\ RunIdle
    /\ GenerateIdle
    /\ UtilIdle

\* One category-config task of one project computes its category ids.
\* castArray returns the configured array itself, so the push of all
\* categories lands in the configuration object.
Expand ==
    /\ categoryIds = NotYet
    /\ categoryIds' = ExpandCategoryIds(cfgIdList, projCats)
    /\ cfgIdList' = PushAllCategories(cfgIdList, projCats)
    /\ UNCHANGED <<origIdList, projCats, tokenIndex, sortVars, runVars, genVars, utilVars>>

\* The same category config object is processed again for the next token of
\* a multi-token project ({...project, token} shares `categories`).
NextToken ==
    /\ categoryIds # NotYet
    /\ tokenIndex + 1 < MaxTokens
    /\ tokenIndex' = tokenIndex + 1
    /\ projCats' \in CatMenus
    /\ categoryIds' = NotYet
    /\ UNCHANGED <<cfgIdList, origIdList, sortVars, runVars, genVars, utilVars>>

NextCategory == Expand \/ NextToken

SpecCategory == InitCategory /\ [][NextCategory]_vars

\* ------------------------------------------------------------------------
\* sortByWeights (utils): list.sort with a comparator that pads the shorter
\* weight vector with zeros IN PLACE and returns the first non-zero
\* component difference.
\* ------------------------------------------------------------------------
Zeros(n) == [i \in 1..n |-> 0]

\* x.weights.push(...new Array(maxLen - minLen).fill(0))
PadWeights(w, len) == IF Len(w) < len THEN w \o Zeros(len - Len(w)) ELSE w

RECURSIVE FirstDifference(_, _, _)
\* a.weights.reduce((w, _, i) => w === 0 ? a.weights[i] - b.weights[i] : w, 0)
FirstDifference(a, b, i) ==
    IF i > Len(a) THEN 0
    ELSE IF a[i] - b[i] # 0 THEN a[i] - b[i]
    ELSE FirstDifference(a, b, i + 1)

\* a comparator that lets every component overwrite the result
LastDifference(a, b) == IF Len(a) = 0 THEN 0 ELSE a[Len(a)] - b[Len(a)]

\* the comparator's result on two vectors already padded to equal length
CompareWeights(a, b) == FirstDifference(a, b, 1)

RECURSIVE InsertByWeights(_, _, _)
\* Stable insertion of x into the sorted prefix s, scanning from position j
\* down; every comparison leaves both operands padded to their common length.
InsertByWeights(s, x, j) ==
    IF j = 0 THEN <<x>> \o s
    ELSE LET len == Max2(Len(s[j].weights), Len(x.weights))
             a == [s[j] EXCEPT !.weights = PadWeights(@, len)]
             b == [x EXCEPT !.weights = PadWeights(@, len)]
             s2 == [s EXCEPT ![j] = a]
         IN IF CompareWeights(a.weights, b.weights) > 0
            THEN InsertByWeights(s2, b, j - 1)
            ELSE SubSeq(s2, 1, j) \o <<b>> \o SubSeq(s2, j + 1, Len(s2))

RECURSIVE sortByWeights(_)
sortByWeights(list) ==
    IF list = <<>> THEN <<>>
    ELSE LET front == sortByWeights(SubSeq(list, 1, Len(list) - 1))
         IN InsertByWeights(front, list[Len(list)], Len(front))

\* the map indexes a weight vector is made of
WeightValues == {0, 1}

WeightVectors == SeqsUpTo(WeightValues, MaxWeightLen) \ {<<>>}

\* element i of a list is the object with identity i
WeightedList(ws) == [i \in DOMAIN ws |-> [id |-> i, weights |-> ws[i]]]

Reorderings(list) ==
    {[i \in DOMAIN list |-> list[f[i]]] : f \in Permutations(DOMAIN list)}

RECURSIVE VectorCode(_)
\* a number that tells any two weight vectors apart
VectorCode(w) ==
    IF w = <<>> THEN 0
    ELSE (Head(w) + 1) + (Cardinality(WeightValues) + 1) * VectorCode(Tail(w))

\* the elements in ascending vector code
ReferenceOrder(list) ==
    \A i \in 1..(Len(list) - 1) :
        VectorCode(list[i].weights) <= VectorCode(list[i + 1].weights)

\* The first call gets the elements in reference order, the second call gets
\* them in any order: every bounded list is, up to the naming of its
\* elements, one of the second inputs.
InitSort ==
    /\ \E n \in 1..MaxListLen : \E ws \in [1..n -> WeightVectors] :
          /\ ReferenceOrder(WeightedList(ws))
          /\ wIn = WeightedList(ws)
    /\ wPermIn \in Reorderings(wIn)
    /\ wList = wIn
    /\ wPerm = wPermIn
    /\ wSorted = {}
    /\ CategoryIdle
    /\ RunIdle
    /\ GenerateIdle
    /\ UtilIdle

SortFirst ==
    /\ 1 \notin wSorted
    /\ wList' = sortByWeights(wList)
    /\ wSorted' = wSorted \cup {1}
    /\ UNCHANGED <<wIn, wPermIn, wPerm, catVars, runVars, genVars, utilVars>>

SortSecond ==
    /\ 2 \notin wSorted
    /\ wPerm' = sortByWeights(wPerm)
    /\ wSorted' = wSorted \cup {2}
    /\ UNCHANGED <<wIn, wPermIn, wList, catVars, runVars, genVars, utilVars>>

NextSort == SortFirst \/ SortSecond

SpecSort == InitSort /\ [][NextSort]_vars

\* ------------------------------------------------------------------------
\* The configuration and the remote servers of one run (Spec)
\* ------------------------------------------------------------------------
\* outputDir: a directory (one file per category name), or a function of the
\* interface that returns one file for all, or one file per interface
OutputDirs == {"category", "single", "interface"}

\* the category menu every remote project answers with
RemoteCats == <<2, 10>>

\* the interfaces (_id) of a remote category, in the order of the export
RemoteInterfaces(catId) ==
    IF catId = RemoteCats[1]
    THEN [j \in 1..MaxIfaces |-> 10 * catId + MaxIfaces + 1 - j]
    ELSE <<10 * catId + 1>>

\* the id lists a category config of the run may carry
ConfigIdLists == {<<2>>, <<10>>, <<0>>, <<1>>}

RECURSIVE SumLens(_, _)
SumLens(lists, n) ==
    IF n = 0 THEN 0
    ELSE Len(ExpandCategoryIds(lists[n], RemoteCats)) + SumLens(lists, n - 1)

\* number of category tasks a configuration spawns
TaskCount(sh) == sh.nS * sh.nP * sh.nT * SumLens(sh.idLists, sh.nC)

Dims ==
    {d \in [nS : 1..MaxTasks, nP : 1..MaxTasks, nT : 1..MaxTasks, nC : 1..MaxTasks] :
        d.nS * d.nP * d.nT * d.nC <= MaxTasks}

\* nS servers, each with nP project definitions of nT tokens and nC category
\* configs (the same id lists in every project)
ShapesOf(d) ==
    {[nS |-> d.nS, nP |-> d.nP, nT |-> d.nT, nC |-> d.nC,
      idLists |-> il, outputDir |-> od] :
        il \in [1..d.nC -> ConfigIdLists],
        od \in OutputDirs}

Shapes == {sh \in UNION {ShapesOf(d) : d \in Dims} : TaskCount(sh) <= MaxTasks}

Servers == 1..shape.nS

\* projects after the expansion of multi-token definitions:
\* project p is token TokenOf(p) of definition DefOf(p)
Projects == 1..(shape.nP * shape.nT)

DefOf(p) == ((p - 1) \div shape.nT) + 1

TokenOf(p) == p

CatConfigs == 1..shape.nC

ProjectKeys == {<<s, p>> : s \in Servers, p \in Projects}

\* serverConfig.serverUrl as prepare() left it: one url per server config
ServerUrl(s) == s

\* getOutputFilePath / syntheticalConfig.outputDir(interfaceInfo), resolved
OutputFilePath(catId, ifaceId) ==
    IF shape.outputDir = "category" THEN catId
    ELSE IF shape.outputDir = "single" THEN 0
    ELSE ifaceId

\* ------------------------------------------------------------------------
\* memoize, fetchApi
\* ------------------------------------------------------------------------
\* lodash memoize without a resolver keys the cache by its first argument;
\* the argument is an object, so the key is the identity `ref` of the object
\* literal built at the call site, not its serverUrl and token
MemoizeKey(ref, url, token) == ref

Bump(f, key, n) ==
    IF n = 0 THEN f
    ELSE IF key \in DOMAIN f THEN [f EXCEPT ![key] = @ + n]
    ELSE f @@ (key :> n)

\* calls: a set of [ref, url, token]; every call whose key misses the cache
\* runs the memoized function once per distinct key, which issues one request
Misses(calls, cache) ==
    {MemoizeKey(c.ref, c.url, c.token) : c \in calls} \ cache

RECURSIVE IssueFor(_, _, _, _)
IssueFor(reqs, api, calls, cache) ==
    IF calls = {} THEN reqs
    ELSE LET c == CHOOSE x \in calls : TRUE
             same == {x \in calls : x.url = c.url /\ x.token = c.token}
         IN IssueFor(Bump(reqs, <<api, c.url, c.token>>,
                          Cardinality(Misses(same, cache))),
                     api, calls \ same, cache)

\* ------------------------------------------------------------------------
\* generate(): the project tasks
\* ------------------------------------------------------------------------
\* prepare() has returned and run() is about to call generate()
Init ==
    /\ shape \in Shapes
    /\ pc = "prepared"
    /\ idArrays = [k \in {<<s, d, c>> : s \in 1..shape.nS, d \in 1..shape.nP,
                                         c \in 1..shape.nC} |-> shape.idLists[k[3]]]
    /\ projTask = [k \in {<<s, p>> : s \in 1..shape.nS,
                                     p \in 1..(shape.nP * shape.nT)} |-> "idle"]
    /\ idTask = EmptyMap
    /\ catDone = {}
    /\ outputFileList = EmptyMap
    /\ requests = EmptyMap
    /\ projectCache = {}
    /\ exportCache = {}
    /\ RunIdle
    /\ UtilIdle
    /\ CategoryIdle
    /\ SortIdle

otherVars == <<runVars, catVars, sortVars, utilVars>>

\* the argument object of the fetchProject call inside fetchProjectInfo
InfoCall(s, p) ==
    [ref |-> <<"fetchProjectInfo", s, p>>, url |-> ServerUrl(s), token |-> TokenOf(p)]

\* generate() is called; every project task calls fetchProjectInfo, which
\* calls fetchProject
RunGenerate ==
    /\ pc = "prepared"
    /\ pc' = "generate"
    /\ LET calls == {InfoCall(k[1], k[2]) : k \in ProjectKeys}
       IN /\ requests' = IssueFor(requests, "project/get", calls, projectCache)
          /\ projectCache' = projectCache \cup Misses(calls, projectCache)
    /\ projTask' = [k \in ProjectKeys |-> "fetchProject"]
    /\ UNCHANGED <<shape, idArrays, idTask, catDone, outputFileList, exportCache,
                   otherVars>>

\* fetchProject has answered inside fetchProjectInfo, which now requests the
\* category menu
ProjectFetched(s, p) ==
    /\ projTask[<<s, p>>] = "fetchProject"
    /\ projTask' = [projTask EXCEPT ![<<s, p>>] = "getCatMenu"]
    /\ requests' = Bump(requests, <<"interface/getCatMenu", ServerUrl(s), TokenOf(p)>>, 1)
    /\ UNCHANGED <<shape, pc, idArrays, idTask, catDone, outputFileList,
                   projectCache, exportCache, otherVars>>

\* the awaited request of fetchProjectInfo fails (network error, errcode)
ProjectFail(s, p) ==
    /\ projTask[<<s, p>>] \in {"fetchProject", "getCatMenu"}
    /\ projTask' = [projTask EXCEPT ![<<s, p>>] = "failed"]
    /\ UNCHANGED <<shape, pc, idArrays, idTask, catDone, outputFileList,
                   requests, projectCache, exportCache, otherVars>>

\* a weight vector that ends in the interface's index within its category
WeightsByInterface(s, p, c, k, i) == <<s - 1, p - 1, c - 1, i - 1>>

\* components of the weight vector are the zero-based map indexes
\* [serverIndex, projectIndex, categoryIndex, categoryIndex2]
Weights(s, p, c, k, i) == <<s - 1, p - 1, c - 1, k - 1>>

\* the argument object of the fetchExport call inside fetchInterfaceList
ListCall(key) ==
    [ref |-> <<"fetchInterfaceList", key>>, url |-> ServerUrl(key[1]),
     token |-> TokenOf(key[2])]

\* the calls whose key misses the cache and that therefore run the function
ExecCalls(calls, cache) ==
    {CHOOSE c \in calls : MemoizeKey(c.ref, c.url, c.token) = m :
        m \in Misses(calls, cache)}

\* the argument object of the fetchProject call inside one run of fetchExport
ExportCall(c) ==
    [ref |-> <<"fetchExport", MemoizeKey(c.ref, c.url, c.token)>>,
     url |-> c.url, token |-> c.token]

NewIdTask(catId, exec) ==
    [pc |-> "fetchProject", catId |-> catId, exec |-> exec, ifaces |-> <<>>,
     res |-> <<>>, filled |-> {}, outOfOrder |-> FALSE, ret |-> <<>>]

\* the category menu has arrived: every category config of the project
\* expands its ids and starts one category task per id; each task calls
\* fetchInterfaceList -> fetchExport -> fetchProject
ProjectCatsOk(s, p) ==
    /\ projTask[<<s, p>>] = "getCatMenu"
    /\ projTask' = [projTask EXCEPT ![<<s, p>>] = "running"]
    /\ LET ids == [c \in CatConfigs |->
                      ExpandCategoryIds(idArrays[<<s, DefOf(p), c>>], RemoteCats)]
           keys == {<<s, p, c, k>> : c \in CatConfigs, k \in 1..MaxTasks}
           newKeys == {key \in keys : key[4] <= Len(ids[key[3]])}
           listCalls == {ListCall(key) : key \in newKeys}
           execCalls == ExecCalls(listCalls, exportCache)
           projCalls == {ExportCall(c) : c \in execCalls}
       IN /\ idArrays' = [a \in DOMAIN idArrays |->
                             IF a[1] = s /\ a[2] = DefOf(p)
                             THEN PushAllCategories(idArrays[a], RemoteCats)
                             ELSE idArrays[a]]
          /\ idTask' = idTask @@
                       [key \in newKeys |->
                           NewIdTask(ids[key[3]][key[4]], ListCall(key) \in execCalls)]
          /\ catDone' = catDone \cup {<<s, p, c>> : c \in {x \in CatConfigs : ids[x] = <<>>}}
          /\ exportCache' = exportCache \cup Misses(listCalls, exportCache)
          /\ requests' = IssueFor(requests, "project/get", projCalls, projectCache)
          /\ projectCache' = projectCache \cup Misses(projCalls, projectCache)
    /\ UNCHANGED <<shape, pc, outputFileList, otherVars>>

\* ------------------------------------------------------------------------
\* generate(): the category tasks and their interface tasks
\* ------------------------------------------------------------------------
RECURSIVE InsertById(_, _)
InsertById(sortedSeq, x) ==
    IF sortedSeq = <<>> THEN <<x>>
    ELSE IF x - Head(sortedSeq) < 0 THEN <<x>> \o sortedSeq
    ELSE <<Head(sortedSeq)>> \o InsertById(Tail(sortedSeq), x)

RECURSIVE SortById(_)
\* interfaceList.sort((a, b) => a._id - b._id)
SortById(s) ==
    IF s = <<>> THEN <<>>
    ELSE InsertById(SortById(SubSeq(s, 1, Len(s) - 1)), s[Len(s)])

RECURSIVE Flatten(_)
Flatten(ss) == IF ss = <<>> THEN <<>> ELSE Head(ss) \o Flatten(Tail(ss))

Last(s) == s[Len(s)]

Paths(list) == [i \in DOMAIN list |-> list[i].outputFilePath]

\* lodash groupBy: the group of one key, in list order
Group(list, path) == SelectSeq(list, LAMBDA item : item.outputFilePath = path)

\* Object.keys(groupBy(list, item => item.outputFilePath)): first occurrences
GroupKeys(list) == Uniq(Paths(list))

\* the text generateInterfaceCode returns for one interface: one fragment
InterfaceCode(key, ifaceId) ==
    <<[categoryUID |-> <<key[1] - 1, key[2] - 1, key[3] - 1, key[4] - 1>>,
       id |-> ifaceId]>>

NoCode == [outputFilePath |-> -1, weights |-> <<>>, code |-> <<>>]

\* the element of interfaceCodes the interface task i of a category task returns
InterfaceResult(key, t, i) ==
    [outputFilePath |-> OutputFilePath(t.catId, t.ifaces[i]),
     weights |-> Weights(key[1], key[2], key[3], key[4], i),
     code |-> InterfaceCode(key, t.ifaces[i])]

\* results collected in the order in which the promises settle
CompletionSlot(i, filled) == Cardinality(filled) + 1

\* Promise.all keeps the value of the i-th promise at index i
ResultSlot(i, filled) == i

\* what the category task returns once Promise.all(interfaceCodes) is there:
\* one item per output path, the codes of the group joined in list order
CategoryCodes(codes) ==
    LET keys == GroupKeys(codes)
    IN [g \in DOMAIN keys |->
           LET group == Group(codes, keys[g])
           IN [outputFilePath |-> keys[g],
               code |-> Flatten([i \in DOMAIN group |-> group[i].code]),
               weights |-> Last(sortByWeights(group)).weights]]

\* if (!outputFileList[outputFilePath]) outputFileList[outputFilePath] = {...}
WithBuckets(ofl, paths) ==
    ofl @@ [path \in paths \ DOMAIN ofl |-> [content |-> <<>>]]

CatKeys(idT, s, p, c) ==
    {key \in DOMAIN idT : key[1] = s /\ key[2] = p /\ key[3] = c}

\* the loop after Promise.all of the category tasks of one category config:
\* the returned items are grouped by path, each group is sorted by weights
\* and its codes are appended to the bucket's content
PushCodes(ofl, idT, s, p, c) ==
    LET n == Cardinality(CatKeys(idT, s, p, c))
        codes == Flatten([k \in 1..n |-> idT[<<s, p, c, k>>].ret])
        keys == Range(GroupKeys(codes))
    IN [path \in DOMAIN ofl |->
           IF path \in keys
           THEN LET sorted == sortByWeights(Group(codes, path))
                IN [ofl[path] EXCEPT
                       !.content = @ \o [i \in DOMAIN sorted |-> sorted[i].code]]
           ELSE ofl[path]]

\* The category task `key`, now in state t, has all its interface codes (or
\* not yet): it creates the buckets and returns; if it was the last task of
\* its category config, the config's codes are pushed.
Continue(key, t) ==
    IF t.filled # DOMAIN t.ifaces
    THEN /\ idTask' = [idTask EXCEPT ![key] = t]
         /\ UNCHANGED <<outputFileList, catDone>>
    ELSE LET ret == CategoryCodes(t.res)
             idT == [idTask EXCEPT ![key] = [t EXCEPT !.pc = "done", !.ret = ret]]
             ofl == WithBuckets(outputFileList, Range(Paths(ret)))
             s == key[1]
             p == key[2]
             c == key[3]
             last == \A k \in CatKeys(idT, s, p, c) : idT[k].pc = "done"
         IN /\ idTask' = idT
            /\ outputFileList' = IF last THEN PushCodes(ofl, idT, s, p, c) ELSE ofl
            /\ catDone' = IF last THEN catDone \cup {<<s, p, c>>} ELSE catDone

\* fetchProject has answered inside fetchExport, which now requests the export
IdProjectFetched(key) ==
    /\ idTask[key].pc = "fetchProject"
    /\ idTask' = [idTask EXCEPT ![key].pc = "fetchExport"]
    /\ requests' = Bump(requests,
                        <<"plugin/export", ServerUrl(key[1]), TokenOf(key[2])>>,
                        IF idTask[key].exec THEN 1 ELSE 0)
    /\ UNCHANGED <<shape, pc, idArrays, projTask, catDone, outputFileList,
                   projectCache, exportCache, otherVars>>

\* the export has arrived: the interfaces of the category are sorted by _id
\* and one interface task per interface is started
IdExportFetched(key) ==
    /\ idTask[key].pc = "fetchExport"
    /\ LET ifaces == SortById(RemoteInterfaces(idTask[key].catId))
       IN Continue(key, [idTask[key] EXCEPT
                            !.pc = "synth",
                            !.ifaces = ifaces,
                            !.res = [i \in DOMAIN ifaces |-> NoCode]])
    /\ UNCHANGED <<shape, pc, idArrays, projTask, requests,
                   projectCache, exportCache, otherVars>>

\* an awaited request of the category task fails
IdFail(key) ==
    /\ idTask[key].pc \in {"fetchProject", "fetchExport"}
    /\ idTask' = [idTask EXCEPT ![key].pc = "failed"]
    /\ UNCHANGED <<shape, pc, idArrays, projTask, catDone, outputFileList,
                   requests, projectCache, exportCache, otherVars>>

\* generateInterfaceCode of interface i has returned its code
IfaceOk(key, i) ==
    /\ idTask[key].pc = "synth"
    /\ i \in DOMAIN idTask[key].ifaces
    /\ i \notin idTask[key].filled
    /\ LET t == idTask[key]
       IN Continue(key, [t EXCEPT
                            !.res[ResultSlot(i, t.filled)] = InterfaceResult(key, t, i),
                            !.filled = @ \cup {i},
                            !.outOfOrder = @ \/ (\E j \in 1..(i - 1) : j \notin t.filled)])
    /\ UNCHANGED <<shape, pc, idArrays, projTask, requests,
                   projectCache, exportCache, otherVars>>

\* generateInterfaceCode of interface i throws: Promise.all of the category
\* task rejects and the values collected so far are never delivered
IfaceFail(key, i) ==
    /\ idTask[key].pc = "synth"
    /\ i \in DOMAIN idTask[key].ifaces
    /\ i \notin idTask[key].filled
    /\ idTask' = [idTask EXCEPT ![key] = [@ EXCEPT !.pc = "failed", !.res = <<>>,
                                                    !.filled = {}, !.outOfOrder = FALSE]]
    /\ UNCHANGED <<shape, pc, idArrays, projTask, catDone, outputFileList,
                   requests, projectCache, exportCache, otherVars>>

\* ------------------------------------------------------------------------
\* generate(): the nested Promise.all
\* ------------------------------------------------------------------------
AnyBranchFailed ==
    \/ \E k \in ProjectKeys : projTask[k] = "failed"
    \/ \E key \in DOMAIN idTask : idTask[key].pc = "failed"

ProjectFulfilled(k) ==
    /\ projTask[k] = "running"
    /\ \A c \in CatConfigs : <<k[1], k[2], c>> \in catDone

ProjectSettled(k) ==
    \/ projTask[k] = "failed"
    \/ /\ projTask[k] = "running"
       /\ \A c \in CatConfigs :
             \/ <<k[1], k[2], c>> \in catDone
             \/ \E key \in CatKeys(idTask, k[1], k[2], c) : idTask[key].pc = "failed"

\* a generate() that waits for every branch and resolves whatever happened
GenerateAllSettled == \A k \in ProjectKeys : ProjectSettled(k)

\* Promise.all fulfils when every branch has fulfilled
GenerateFulfilled == \A k \in ProjectKeys : ProjectFulfilled(k)

\* Promise.all rejects as soon as one branch rejects
GenerateRejected == AnyBranchFailed

\* generate() has returned: spinner.stop(); write(output) is called
RunGenerateOk ==
    /\ pc = "generate"
    /\ GenerateFulfilled
    /\ pc' = "write"
    /\ UNCHANGED <<shape, idArrays, projTask, idTask, catDone, outputFileList,
                   requests, projectCache, exportCache, otherVars>>

\* generate() has thrown: run() enters its catch block
RunGenerateFail ==
    /\ pc = "generate"
    /\ GenerateRejected
    /\ pc' = "catch"
    /\ UNCHANGED <<shape, idArrays, projTask, idTask, catDone, outputFileList,
                   requests, projectCache, exportCache, otherVars>>

Next ==
    \/ RunGenerate
    \/ \E k \in ProjectKeys : ProjectFetched(k[1], k[2])
    \/ \E k \in ProjectKeys : ProjectFail(k[1], k[2])
    \/ \E k \in ProjectKeys : ProjectCatsOk(k[1], k[2])
    \/ \E key \in DOMAIN idTask : IdProjectFetched(key)
    \/ \E key \in DOMAIN idTask : IdExportFetched(key)
    \/ \E key \in DOMAIN idTask : IdFail(key)
    \/ \E key \in DOMAIN idTask : \E i \in 1..MaxIfaces : IfaceOk(key, i)
    \/ \E key \in DOMAIN idTask : \E i \in 1..MaxIfaces : IfaceFail(key, i)
    \/ RunGenerateOk
    \/ RunGenerateFail

Spec == Init /\ [][Next]_vars

\* ------------------------------------------------------------------------
\* run(): the try / catch / complete sequence of the default command
\* ------------------------------------------------------------------------
\* serverType "apifox" goes through the adapter server, any other type is a
\* YApi server addressed directly
ServerTypes == {"yapi", "apifox"}

RunServers == DOMAIN serverTypes

\* Generator.destroy: every registered dispose runs; stop() closes a
\* listening server and does nothing on one already closed
StopAll(ad, disp) ==
    [s \in DOMAIN ad |->
        IF s \in Range(disp) /\ ad[s] = "listening" THEN "stopped" ELSE ad[s]]

\* a catch block that goes straight to the fail hook
EnterCatchNoDestroy(event) ==
    /\ runPc' = "failHook"
    /\ log' = log \o <<event, "fail">>
    /\ UNCHANGED adapter

\* catch (err): spinner.stop(); await generator.destroy()
EnterCatch(event) ==
    /\ runPc' = "catchDestroy"
    /\ log' = log \o <<event, "destroy">>
    /\ adapter' = StopAll(adapter, disposes)

\* the configuration is loaded and the Generator constructed
InitRun ==
    /\ serverTypes \in UNION {[1..n -> ServerTypes] : n \in 1..MaxServers}
    /\ runPc = "clean"
    /\ log = <<>>
    /\ adapter = [s \in DOMAIN serverTypes |-> "none"]
    /\ disposes = <<>>
    /\ GenerateIdle
    /\ UtilIdle
    /\ CategoryIdle
    /\ SortIdle

restVars == <<genVars, catVars, sortVars, utilVars>>

\* await generator.cleanOutputDirectory() has returned (it swallows its
\* errors); prepare() is called and starts the adapter of every apifox server
RunClean ==
    /\ runPc = "clean"
    /\ runPc' = "prepare"
    /\ log' = Append(log, "prepare")
    /\ adapter' = [s \in RunServers |->
                      IF serverTypes[s] = "apifox" THEN "fetching" ELSE "none"]
    /\ UNCHANGED <<serverTypes, disposes, restVars>>

\* ApifoxToYApiServer.start: the OpenAPI document has arrived; the HTTP
\* server is created and listen() is called
AdapterDataOk(s) ==
    /\ adapter[s] = "fetching"
    /\ adapter' = [adapter EXCEPT ![s] = "binding"]
    /\ UNCHANGED <<serverTypes, runPc, log, disposes, restVars>>

\* fetchApifoxOpenAPI throws: start() rejects
AdapterDataFail(s) ==
    /\ adapter[s] = "fetching"
    /\ adapter' = [adapter EXCEPT ![s] = "failed"]
    /\ UNCHANGED <<serverTypes, runPc, log, disposes, restVars>>

\* the listen callback resolves start(); the prepare task of the server
\* takes the local url and registers the dispose
AdapterListening(s) ==
    /\ adapter[s] = "binding"
    /\ adapter' = [adapter EXCEPT ![s] = "listening"]
    /\ disposes' = Append(disposes, s)
    /\ UNCHANGED <<serverTypes, runPc, log, restVars>>

\* Promise.all of prepare()
PrepareRejected == \E s \in RunServers : adapter[s] = "failed"

PrepareFulfilled ==
    \A s \in RunServers : serverTypes[s] # "apifox" \/ s \in Range(disposes)

\* prepare() has returned: generate() is called
RunPrepareOk ==
    /\ runPc = "prepare"
    /\ PrepareFulfilled
    /\ runPc' = "generate"
    /\ log' = Append(log, "generate")
    /\ UNCHANGED <<serverTypes, adapter, disposes, restVars>>

RunPrepareFail ==
    /\ runPc = "prepare"
    /\ PrepareRejected
    /\ EnterCatch("prepare.fail")
    /\ UNCHANGED <<serverTypes, disposes, restVars>>

\* generate() has returned (Spec: RunGenerateOk): spinner.stop();
\* write(output) is called
GenerateReturns ==
    /\ runPc = "generate"
    /\ runPc' = "write"
    /\ log' = Append(log, "write")
    /\ UNCHANGED <<serverTypes, adapter, disposes, restVars>>

\* generate() has thrown (Spec: RunGenerateFail)
GenerateThrows ==
    /\ runPc = "generate"
    /\ EnterCatch("generate.fail")
    /\ UNCHANGED <<serverTypes, disposes, restVars>>

\* write() has returned: destroy() is called
WriteOk ==
    /\ runPc = "write"
    /\ runPc' = "destroy"
    /\ log' = Append(log, "destroy")
    /\ adapter' = StopAll(adapter, disposes)
    /\ UNCHANGED <<serverTypes, disposes, restVars>>

\* write() rejects (file system, prettier)
WriteFail ==
    /\ runPc = "write"
    /\ EnterCatch("write.fail")
    /\ UNCHANGED <<serverTypes, disposes, restVars>>

\* destroy() has returned: the success hook is called
DestroyReturn ==
    /\ runPc = "destroy"
    /\ runPc' = "successHook"
    /\ log' = log \o <<"destroyed", "success">>
    /\ UNCHANGED <<serverTypes, adapter, disposes, restVars>>

\* the success hook has returned: the complete hook is called
SuccessHookOk ==
    /\ runPc = "successHook"
    /\ runPc' = "completeHook"
    /\ log' = Append(log, "complete")
    /\ UNCHANGED <<serverTypes, adapter, disposes, restVars>>

\* the success hook throws inside the try block
SuccessHookFail ==
    /\ runPc = "successHook"
    /\ EnterCatch("success.fail")
    /\ UNCHANGED <<serverTypes, disposes, restVars>>

\* destroy() of the catch block has returned: the fail hook is called
CatchDestroyReturn ==
    /\ runPc = "catchDestroy"
    /\ runPc' = "failHook"
    /\ log' = log \o <<"destroyed", "fail">>
    /\ UNCHANGED <<serverTypes, adapter, disposes, restVars>>

\* the fail hook has returned: consola.error(err), then the complete hook
FailHookOk ==
    /\ runPc = "failHook"
    /\ runPc' = "completeHook"
    /\ log' = log \o <<"error", "complete">>
    /\ UNCHANGED <<serverTypes, adapter, disposes, restVars>>

\* the fail hook throws inside the catch block: run() rejects
FailHookFail ==
    /\ runPc = "failHook"
    /\ runPc' = "rejected"
    /\ log' = Append(log, "fail.fail")
    /\ UNCHANGED <<serverTypes, adapter, disposes, restVars>>

CompleteHookOk ==
    /\ runPc = "completeHook"
    /\ runPc' = "done"
    /\ UNCHANGED <<serverTypes, log, adapter, disposes, restVars>>

CompleteHookFail ==
    /\ runPc = "completeHook"
    /\ runPc' = "rejected"
    /\ log' = Append(log, "complete.fail")
    /\ UNCHANGED <<serverTypes, adapter, disposes, restVars>>

NextRun ==
    \/ RunClean
    \/ \E s \in RunServers : AdapterDataOk(s)
    \/ \E s \in RunServers : AdapterDataFail(s)
    \/ \E s \in RunServers : AdapterListening(s)
    \/ RunPrepareOk
    \/ RunPrepareFail
    \/ GenerateReturns
    \/ GenerateThrows
    \/ WriteOk
    \/ WriteFail
    \/ DestroyReturn
    \/ SuccessHookOk
    \/ SuccessHookFail
    \/ CatchDestroyReturn
    \/ FailHookOk
    \/ FailHookFail
    \/ CompleteHookOk
    \/ CompleteHookFail

SpecRun == InitRun /\ [][NextRun]_vars

\* ------------------------------------------------------------------------
\* Strings: a string is the sequence of its characters
\* ------------------------------------------------------------------------
UpperLetters ==
    <<"A", "B", "C", "D", "E", "F", "G", "H", "I", "J", "K", "L", "M",
      "N", "O", "P", "Q", "R", "S", "T", "U", "V", "W", "X", "Y", "Z">>

LowerLetters ==
    <<"a", "b", "c", "d", "e", "f", "g", "h", "i", "j", "k", "l", "m",
      "n", "o", "p", "q", "r", "s", "t", "u", "v", "w", "x", "y", "z">>

Digits == {"0", "1", "2", "3", "4", "5", "6", "7", "8", "9"}

IndexIn(seq, c) == CHOOSE i \in DOMAIN seq : seq[i] = c

IsUpper(c) == c \in Range(UpperLetters)

IsLower(c) == c \in Range(LowerLetters)

LowerChar(c) == IF IsUpper(c) THEN LowerLetters[IndexIn(UpperLetters, c)] ELSE c

UpperChar(c) == IF IsLower(c) THEN UpperLetters[IndexIn(LowerLetters, c)] ELSE c

\* String.prototype.toLowerCase
ToLowerCase(str) == [i \in DOMAIN str |-> LowerChar(str[i])]

RECURSIVE TrimStart(_)
TrimStart(str) ==
    IF str # <<>> /\ Head(str) = " " THEN TrimStart(Tail(str)) ELSE str

RECURSIVE TrimEnd(_)
TrimEnd(str) ==
    IF str # <<>> /\ str[Len(str)] = " "
    THEN TrimEnd(SubSeq(str, 1, Len(str) - 1))
    ELSE str

\* String.prototype.trim
Trim(str) == TrimEnd(TrimStart(str))

\* ------------------------------------------------------------------------
\* JSON schemas (utils): a schema node is a record
\*   type      [form: "none" | "single" | "list", names: the type name(s)]
\*   items     [form: "none" | "single" | "list", list: the item schema(s)]
\*   props     [present, entries: the properties in key order, [name, value]]
\*   required  the required list
\*   oneOf, anyOf, allOf   the alternatives
\*   keywords  the other keywords the node carries (title, id, default, ...)
\*   additionalProperties  "absent" | "true" | "false"
\* ------------------------------------------------------------------------
NoType == [form |-> "none", names |-> <<>>]

TypeOf(name) == [form |-> "single", names |-> <<name>>]

TypeList(names) == [form |-> "list", names |-> names]

NoItems == [form |-> "none", list |-> <<>>]

NoProps == [present |-> FALSE, entries |-> <<>>]

EmptySchema ==
    [type |-> NoType, items |-> NoItems, props |-> NoProps, required |-> <<>>,
     oneOf |-> <<>>, anyOf |-> <<>>, allOf |-> <<>>, keywords |-> {},
     additionalProperties |-> "absent"]

\* { __is_any__: true }, the schema of a response that is not JSON
AnySchema == [EmptySchema EXCEPT !.keywords = {"__is_any__"}]

\* const typeMapping = { byte: "integer", ... }, keys in lower case
BuiltinTypeMapping ==
    <<[key |-> <<"b", "y", "t", "e">>, value |-> <<"i", "n", "t", "e", "g", "e", "r">>],
      [key |-> <<"s", "h", "o", "r", "t">>, value |-> <<"i", "n", "t", "e", "g", "e", "r">>],
      [key |-> <<"i", "n", "t">>, value |-> <<"i", "n", "t", "e", "g", "e", "r">>],
      [key |-> <<"l", "o", "n", "g">>, value |-> <<"i", "n", "t", "e", "g", "e", "r">>],
      [key |-> <<"f", "l", "o", "a", "t">>, value |-> <<"n", "u", "m", "b", "e", "r">>],
      [key |-> <<"d", "o", "u", "b", "l", "e">>, value |-> <<"n", "u", "m", "b", "e", "r">>],
      [key |-> <<"b", "i", "g", "d", "e", "c", "i", "m", "a", "l">>,
       value |-> <<"n", "u", "m", "b", "e", "r">>],
      [key |-> <<"c", "h", "a", "r">>, value |-> <<"s", "t", "r", "i", "n", "g">>],
      [key |-> <<"v", "o", "i", "d">>, value |-> <<"n", "u", "l", "l">>]>>

\* the override keys kept as the caller wrote them
RawKeys(table) == table

\* mapKeys(customTypeMapping, (_, key) => key.toLowerCase())
LowerKeys(table) ==
    [i \in DOMAIN table |-> [key |-> ToLowerCase(table[i].key), value |-> table[i].value]]

\* an object literal with spread: of two entries with one key, the later wins
RECURSIVE Lookup(_, _)
\* table[key], <<>> standing for undefined
Lookup(table, key) ==
    IF table = <<>> THEN <<>>
    ELSE IF table[Len(table)].key = key THEN table[Len(table)].value
    ELSE Lookup(SubSeq(table, 1, Len(table) - 1), key)

\* type = type.toLowerCase(); type = typeMapping[type] || type
MapTypeName(name, table) ==
    LET typeMapping == BuiltinTypeMapping \o LowerKeys(table)
        lower == ToLowerCase(name)
        mapped == Lookup(typeMapping, lower)
    IN IF mapped # <<>> THEN mapped ELSE lower

\* jsonSchema.type = isMultiple ? types : types[0]
MapType(type, table) ==
    IF type.form = "none" THEN type
    ELSE [type EXCEPT !.names = [i \in DOMAIN type.names |-> MapTypeName(type.names[i], table)]]

ArrayName == <<"a", "r", "r", "a", "y">>

ObjectName == <<"o", "b", "j", "e", "c", "t">>

\* if (type === "array" && Array.isArray(items) && items.length) items = items[0]
CollapseTuple(n) ==
    IF /\ n.type = TypeOf(ArrayName)
       /\ n.items.form = "list"
       /\ n.items.list # <<>>
    THEN [n EXCEPT !.items = [form |-> "single", list |-> <<n.items.list[1]>>]]
    ELSE n

EntryNames(entries) == [i \in DOMAIN entries |-> entries[i].name]

GetEntry(entries, name) ==
    entries[CHOOSE i \in DOMAIN entries : entries[i].name = name].value

\* delete properties[name]
DeleteEntry(entries, name) == SelectSeq(entries, LAMBDA e : e.name # name)

\* properties[name] = value: an existing key keeps its place
PutEntry(entries, name, value) ==
    IF name \in Range(EntryNames(entries))
    THEN [i \in DOMAIN entries |->
             IF entries[i].name = name THEN [name |-> name, value |-> value]
             ELSE entries[i]]
    ELSE Append(entries, [name |-> name, value |-> value])

RECURSIVE TrimKeys(_, _)
\* forOwn(properties, (_, prop) => { delete properties[prop];
\*                                   properties[prop.trim()] = propDef })
\* over the keys the object had when the loop started
TrimKeys(entries, keys) ==
    IF keys = <<>> THEN entries
    ELSE LET prop == Head(keys)
             propDef == GetEntry(entries, prop)
         IN TrimKeys(PutEntry(DeleteEntry(entries, prop), Trim(prop), propDef),
                     Tail(keys))

\* the callback of processJsonSchema on one node
ProcessNode(node, table) ==
    LET n1 == [node EXCEPT !.keywords = @ \ {"$ref", "$$ref"}]
        n2 == CollapseTuple(n1)
        n3 == [n2 EXCEPT !.type = MapType(@, table)]
    IN IF n3.props.present
       THEN [n3 EXCEPT
                !.props.entries = TrimKeys(@, EntryNames(@)),
                !.required = [i \in DOMAIN @ |-> Trim(@[i])]]
       ELSE n3

\* the pass without `delete jsonSchema.default`
JSTTNodeKeepDefault(node) ==
    LET n1 == [node EXCEPT !.keywords = @ \ {"title", "id", "minItems", "maxItems"}]
    IN IF n1.type = TypeOf(ObjectName)
       THEN [n1 EXCEPT !.additionalProperties = "false"]
       ELSE n1

\* the callback of jsonSchemaToJSTTJsonSchema on one node
JSTTNode(node) ==
    LET n1 == [node EXCEPT
                  !.keywords = @ \ {"title", "id", "minItems", "maxItems", "default"}]
    IN IF n1.type = TypeOf(ObjectName)
       THEN [n1 EXCEPT !.additionalProperties = "false"]
       ELSE n1

Callback(node, pass, table) ==
    IF pass = "process" THEN ProcessNode(node, table) ELSE JSTTNode(node)

RECURSIVE traverseJsonSchema(_, _, _)
\* cb(jsonSchema), then the properties, the items (castArray), oneOf, anyOf
\* and allOf of the node the callback left
traverseJsonSchema(node, pass, table) ==
    LET n == Callback(node, pass, table)
        Each(list) == [i \in DOMAIN list |-> traverseJsonSchema(list[i], pass, table)]
    IN [n EXCEPT
           !.props.entries =
               [i \in DOMAIN @ |->
                   [name |-> @[i].name,
                    value |-> traverseJsonSchema(@[i].value, pass, table)]],
           !.items.list = Each(@),
           !.oneOf = Each(@),
           !.anyOf = Each(@),
           !.allOf = Each(@)]

processJsonSchema(jsonSchema, customTypeMapping) ==
    traverseJsonSchema(jsonSchema, "process", customTypeMapping)

\* delete jsonSchema.description on the root, then the traversal
jsonSchemaToJSTTJsonSchema(jsonSchema) ==
    traverseJsonSchema([jsonSchema EXCEPT !.keywords = @ \ {"description"}],
                       "jstt", <<>>)

RECURSIVE ReachFrom(_, _, _)
\* the loop of reachJsonSchema: last.properties?.[segment], the root when
\* the segment is missing
ReachFrom(jsonSchema, last, path) ==
    IF path = <<>> THEN last
    ELSE IF Head(path) \notin Range(EntryNames(last.props.entries)) THEN jsonSchema
    ELSE ReachFrom(jsonSchema, GetEntry(last.props.entries, Head(path)), Tail(path))

\* a lookup that returns the deepest schema it found
reachDeepest(jsonSchema, path) ==
    LET reached == ReachFrom(jsonSchema, jsonSchema, path)
    IN IF reached = jsonSchema /\ Len(path) > 1
       THEN ReachFrom(jsonSchema, jsonSchema, SubSeq(path, 1, Len(path) - 1))
       ELSE reached

\* the root when a segment names no property, the schema at the path otherwise
reachJsonSchema(jsonSchema, path) == ReachFrom(jsonSchema, jsonSchema, path)

\* lodash isEmpty on a schema object: no own key
IsEmptySchema(jsonSchema) == jsonSchema = EmptySchema

\* jsonSchemaToType: the declaration it returns and the caller's schema
\* object as the call leaves it; compile() is given a deep clone
jsonSchemaToType(jsonSchema, typeName) ==
    IF IsEmptySchema(jsonSchema)
    THEN [schema |-> jsonSchema,
          code |-> [kind |-> "interface {}", name |-> typeName, of |-> EmptySchema]]
    ELSE IF "__is_any__" \in jsonSchema.keywords
    THEN [schema |-> [jsonSchema EXCEPT !.keywords = @ \ {"__is_any__"}],
          code |-> [kind |-> "any", name |-> typeName, of |-> EmptySchema]]
    ELSE [schema |-> jsonSchema,
          code |-> [kind |-> "compiled", name |-> typeName,
                    of |-> jsonSchemaToJSTTJsonSchema(jsonSchema)]]

\* ------------------------------------------------------------------------
\* The schemas and override tables of SpecSchema
\* ------------------------------------------------------------------------
LeafTypes ==
    {NoType,
     TypeOf(<<"I", "n", "t">>),
     TypeOf(<<"s", "t", "r", "i", "n", "g">>),
     TypeOf(<<"F", "o", "o">>),
     TypeList(<<<<"L", "o", "n", "g">>, <<"S", "T", "R", "I", "N", "G">>>>)}

ArrayTypes == {TypeOf(ArrayName), TypeOf(<<"A", "r", "r", "a", "y">>)}

ObjectTypes == {TypeOf(ObjectName), NoType}

PropNames == {<<"a">>, <<" ", "a">>}

\* the second element of a tuple and the second property of an object
Sibling == [EmptySchema EXCEPT !.type = TypeOf(<<"d", "o", "u", "b", "l", "e">>)]

Leaves == {[EmptySchema EXCEPT !.type = t] : t \in LeafTypes}

ArraysOver(children) ==
    {[EmptySchema EXCEPT !.type = t, !.items = [form |-> "list", list |-> <<>>]] :
        t \in ArrayTypes}
    \cup {[EmptySchema EXCEPT !.type = t, !.items = [form |-> "single", list |-> <<c>>]] :
            t \in ArrayTypes, c \in children}
    \cup {[EmptySchema EXCEPT !.type = t, !.items = [form |-> "list", list |-> <<c, Sibling>>]] :
            t \in ArrayTypes, c \in children}

ObjectsOver(children) ==
    {[EmptySchema EXCEPT
         !.type = t,
         !.props = [present |-> TRUE, entries |-> <<[name |-> p, value |-> c]>>],
         !.required = <<p>>] :
        t \in ObjectTypes, p \in PropNames, c \in children}
    \cup {[EmptySchema EXCEPT
              !.type = t,
              !.props = [present |-> TRUE,
                         entries |-> <<[name |-> <<" ", "a">>, value |-> c],
                                       [name |-> <<"a">>, value |-> Sibling]>>]] :
            t \in ObjectTypes, c \in children}

AlternativesOver(children) ==
    {[EmptySchema EXCEPT !.oneOf = <<c>>] : c \in children}
    \cup {[EmptySchema EXCEPT !.anyOf = <<c>>] : c \in children}
    \cup {[EmptySchema EXCEPT !.allOf = <<c>>] : c \in children}

RECURSIVE SchemasOfDepth(_)
SchemasOfDepth(d) ==
    IF d = 0 THEN Leaves
    ELSE LET children == SchemasOfDepth(d - 1)
         IN Leaves \cup ArraysOver(children) \cup ObjectsOver(children)
                \cup AlternativesOver(children)

\* customTypeMapping: none, an override of a built-in entry under a key in
\* upper case, a new name, and two entries of which one yields the other's key
TypeTables ==
    {<<>>,
     <<[key |-> <<"I", "N", "T">>, value |-> <<"n", "u", "m", "b", "e", "r">>]>>,
     <<[key |-> <<"F", "o", "o">>, value |-> ArrayName]>>,
     <<[key |-> <<"s", "t", "r", "i", "n", "g">>, value |-> <<"i", "n", "t", "e", "g", "e", "r">>],
       [key |-> <<"i", "n", "t", "e", "g", "e", "r">>, value |-> <<"n", "u", "m", "b", "e", "r">>]>>}

\* the paths handed to reachJsonSchema
ReachPaths == SeqsUpTo({<<"a">>, <<"b">>}, MaxDepth)

RemovedKeywords == {"title", "id", "minItems", "maxItems", "default"}

RECURSIVE Decorate(_)
\* the schema with every keyword of the synthesis pass on every node
Decorate(node) ==
    LET Each(list) == [i \in DOMAIN list |-> Decorate(list[i])]
    IN [node EXCEPT
           !.keywords = @ \cup RemovedKeywords \cup {"description"},
           !.additionalProperties = "true",
           !.props.entries =
               [i \in DOMAIN @ |-> [name |-> @[i].name, value |-> Decorate(@[i].value)]],
           !.items.list = Each(@),
           !.oneOf = Each(@),
           !.anyOf = Each(@),
           !.allOf = Each(@)]

InitSchema ==
    /\ sIn \in SchemasOfDepth(MaxDepth) \cup {AnySchema}
    /\ sTable \in TypeTables
    /\ sPhase = "in"
    /\ sOnce = <<>>
    /\ sTwice = <<>>
    /\ sPath = <<>>
    /\ sReached = <<>>
    /\ sJsttIn = <<>>
    /\ sJstt = <<>>
    /\ sCaller = <<>>
    /\ sCodes = <<>>
    /\ RunIdle
    /\ GenerateIdle
    /\ CategoryIdle
    /\ SortIdle
    /\ OtherUtilIdle("schema")

schemaRest == <<genVars, runVars, catVars, sortVars, namesVars, requestVars, ifaceVars, fetchVars, apifoxVars,
    writeVars,
    paramsVars,
    prefixVars,
    bucketVars,
    callVars,
    cleanVars>>

\* processJsonSchema(jsonSchema, customTypeMapping)
Process ==
    /\ sPhase = "in"
    /\ sOnce' = processJsonSchema(sIn, sTable)
    /\ sPhase' = "once"
    /\ UNCHANGED <<sIn, sTable, sTwice, sPath, sReached, sJsttIn, sJstt, sCaller,
                   sCodes, schemaRest>>

\* processJsonSchema on the schema it returned
ProcessAgain ==
    /\ sPhase = "once"
    /\ sTwice' = processJsonSchema(sOnce, sTable)
    /\ sPhase' = "twice"
    /\ UNCHANGED <<sIn, sTable, sOnce, sPath, sReached, sJsttIn, sJstt, sCaller,
                   sCodes, schemaRest>>

\* reachJsonSchema(jsonSchema, dataKey) on the processed schema
Reach ==
    /\ sPhase = "once"
    /\ \E path \in ReachPaths :
          /\ sPath' = path
          /\ sReached' = reachJsonSchema(sOnce, path)
    /\ sPhase' = "reached"
    /\ UNCHANGED <<sIn, sTable, sOnce, sTwice, sJsttIn, sJstt, sCaller, sCodes,
                   schemaRest>>

\* jsonSchemaToJSTTJsonSchema on the schema as it is or with every keyword
\* the pass deals with
ToJSTT ==
    /\ sPhase = "in"
    /\ \E schema \in {sIn, Decorate(sIn)} :
          /\ sJsttIn' = schema
          /\ sJstt' = jsonSchemaToJSTTJsonSchema(schema)
    /\ sPhase' = "jstt"
    /\ UNCHANGED <<sIn, sTable, sOnce, sTwice, sPath, sReached, sCaller, sCodes,
                   schemaRest>>

\* jsonSchemaToType(jsonSchema, typeName), called with the object the
\* caller holds; at most twice
ToType ==
    /\ sPhase \in {"in", "typed"}
    /\ Len(sCodes) < 2
    /\ LET call == jsonSchemaToType(IF sPhase = "in" THEN sIn ELSE sCaller, "T")
       IN /\ sCaller' = call.schema
          /\ sCodes' = Append(sCodes, call.code)
    /\ sPhase' = "typed"
    /\ UNCHANGED <<sIn, sTable, sOnce, sTwice, sPath, sReached, sJsttIn, sJstt,
                   schemaRest>>

NextSchema == Process \/ ProcessAgain \/ Reach \/ ToJSTT \/ ToType

SpecSchema == InitSchema /\ [][NextSchema]_vars

\* ------------------------------------------------------------------------
\* SpecNames: getRequestFunctionName, getRequestDataTypeName and
\* getReponseDataTypeName (src/src/utils/apifox.ts)
\* ------------------------------------------------------------------------
\* a string as the sequence of its characters
Chars(s) == [i \in 1..Len(s) |-> SubSeq(s, i, i)]

IsDigit(c) == c \in Digits

IsAlnum(c) == IsUpper(c) \/ IsLower(c) \/ IsDigit(c)

\* change-case splits a word before s[i]: ([a-z0-9])([A-Z]) and
\* ([A-Z])([A-Z][a-z])
IsBoundary(s, i) ==
    /\ i > 1
    /\ \/ (IsLower(s[i - 1]) \/ IsDigit(s[i - 1])) /\ IsUpper(s[i])
       \/ IsUpper(s[i - 1]) /\ IsUpper(s[i]) /\ i < Len(s) /\ IsLower(s[i + 1])

RECURSIVE WordsFrom(_, _, _)
\* the words of s from position i on, `word` being the one under way; every
\* run of other characters separates two words
WordsFrom(s, i, word) ==
    LET done == IF word = <<>> THEN <<>> ELSE <<word>>
    IN IF i > Len(s) THEN done
       ELSE IF ~IsAlnum(s[i]) THEN done \o WordsFrom(s, i + 1, <<>>)
       ELSE IF word # <<>> /\ IsBoundary(s, i) THEN <<word>> \o WordsFrom(s, i + 1, <<s[i]>>)
       ELSE WordsFrom(s, i + 1, Append(word, s[i]))

\* pascalCaseTransform(word, index) of change-case, index counted from 0
pascalCaseTransform(word, index) ==
    LET firstChar == Head(word)
        lowerChars == ToLowerCase(Tail(word))
    IN IF index > 0 /\ IsDigit(firstChar)
       THEN <<"_", firstChar>> \o lowerChars
       ELSE <<UpperChar(firstChar)>> \o lowerChars

\* changeCase.pascalCase
pascalCase(s) ==
    LET words == WordsFrom(s, 1, <<>>)
    IN Flatten([i \in DOMAIN words |-> pascalCaseTransform(words[i], i - 1)])

RECURSIVE StripSlashes(_)
\* .replace(/^\/+/, "")
StripSlashes(path) ==
    IF path # <<>> /\ Head(path) = "/" THEN StripSlashes(Tail(path)) ELSE path

\* a variant that keeps the api prefix
KeepApi(path) == path

\* .replace(/^api\/+/, "")
StripApi(path) ==
    IF Len(path) >= 4 /\ SubSeq(path, 1, 4) = Chars("api/")
    THEN StripSlashes(SubSeq(path, 4, Len(path)))
    ELSE path

\* the index of the first "}" of path after position i, 0 when there is none
ClosingBrace(path, i) ==
    LET closing == {j \in (i + 1)..Len(path) : path[j] = "}"}
    IN IF closing = {} THEN 0 ELSE CHOOSE j \in closing : \A k \in closing : j <= k

RECURSIVE ReplaceParams(_, _)
\* .replace(/\{([^}]+)\}/g, (_, param) => `By${pascalCase(param)}`), from
\* position i on
ReplaceParams(path, i) ==
    IF i > Len(path) THEN <<>>
    ELSE LET j == ClosingBrace(path, i)
         IN IF path[i] = "{" /\ j > i + 1
            THEN Chars("By") \o pascalCase(SubSeq(path, i + 1, j - 1))
                     \o ReplaceParams(path, j + 1)
            ELSE <<path[i]>> \o ReplaceParams(path, i + 1)

RECURSIVE Split(_, _)
\* String.prototype.split(sep), sep one character
Split(str, sep) ==
    LET seps == {i \in DOMAIN str : str[i] = sep}
    IN IF seps = {} THEN <<str>>
       ELSE LET i == CHOOSE k \in seps : \A l \in seps : k <= l
            IN <<SubSeq(str, 1, i - 1)>> \o Split(SubSeq(str, i + 1, Len(str)), sep)

\* the path part of a name (apifox.ts:867-882, repeated at 908-923 and
\* 949-964)
PathPart(path) ==
    LET replaced == ReplaceParams(StripApi(StripSlashes(path)), 1)
        pathSegments == FilterSeq(Split(replaced, "/"), Range(Split(replaced, "/")) \ {<<>>})
    IN Flatten([i \in DOMAIN pathSegments |-> pascalCase(pathSegments[i])])

\* interfaceInfo.method || "get"
MethodOrGet(method) == IF method = <<>> THEN Chars("get") ELSE method

getRequestFunctionName(method, path) ==
    ToLowerCase(MethodOrGet(method)) \o PathPart(path) \o Chars("Api")

getRequestDataTypeName(method, path) ==
    pascalCase(ToLowerCase(MethodOrGet(method))) \o PathPart(path) \o Chars("RequestType")

getReponseDataTypeName(method, path) ==
    pascalCase(ToLowerCase(MethodOrGet(method))) \o PathPart(path) \o Chars("ResponseType")

\* --- the interfaces of SpecNames ---
Methods == {Chars("GET"), Chars("POST"), <<>>}

PathPrefixes == {Chars(""), Chars("/"), Chars("/api/"), Chars("api/")}

PathSegments ==
    {Chars("customer"), Chars("v1"), Chars("listDwg"), Chars("{menuId}"),
     Chars("api"), Chars("user-info"), Chars("")}

RECURSIVE Join(_, _)
\* Array.prototype.join
Join(list, sep) ==
    IF list = <<>> THEN <<>>
    ELSE IF Len(list) = 1 THEN list[1]
    ELSE list[1] \o sep \o Join(Tail(list), sep)

ExamplePaths ==
    {Chars("/api/customer/v1/region/listDwg"), Chars("/api/system/v1/menu/query/{menuId}")}

InitNames ==
    /\ nMethod \in Methods
    /\ \/ nPath \in ExamplePaths
       \/ \E prefix \in PathPrefixes, segments \in SeqsUpTo(PathSegments, MaxSegments) :
             nPath = prefix \o Join(segments, <<"/">>)
    /\ nFunc = NoName
    /\ nReq = NoName
    /\ nRes = NoName
    /\ RunIdle
    /\ GenerateIdle
    /\ CategoryIdle
    /\ SortIdle
    /\ OtherUtilIdle("names")

namesRest == <<genVars, runVars, catVars, sortVars, schemaVars, requestVars, ifaceVars, fetchVars, apifoxVars,
    writeVars,
    paramsVars,
    prefixVars,
    bucketVars,
    callVars,
    cleanVars>>

FunctionName ==
    /\ nFunc = NoName
    /\ nFunc' = getRequestFunctionName(nMethod, nPath)
    /\ UNCHANGED <<nMethod, nPath, nReq, nRes, namesRest>>

RequestTypeName ==
    /\ nReq = NoName
    /\ nReq' = getRequestDataTypeName(nMethod, nPath)
    /\ UNCHANGED <<nMethod, nPath, nFunc, nRes, namesRest>>

ResponseTypeName ==
    /\ nRes = NoName
    /\ nRes' = getReponseDataTypeName(nMethod, nPath)
    /\ UNCHANGED <<nMethod, nPath, nFunc, nReq, namesRest>>

NextNames ==
    \/ FunctionName
    \/ RequestTypeName
    \/ ResponseTypeName

SpecNames == InitNames /\ [][NextNames]_vars

\* ------------------------------------------------------------------------
\* SpecRequest: isFileDownloadInterface and the request call of
\* generateInterfaceCode (src/src/cli.ts)
\* ------------------------------------------------------------------------
NoValue == "undefined"

\* the texts of res_body: the empty string, a text JSON.parse rejects, and
\* JSON objects with or without the keys type and content
ResBodies ==
    {[text |-> "empty"], [text |-> "unparseable"]}
        \cup {[text |-> "object", type |-> t, content |-> c] :
                 t \in {"object", "string", NoValue},
                 c \in {"application/octet-stream", "*/*", "application/json", NoValue}}

\* JSON.parse(res_body): the parsed object, or a SyntaxError
JSONParse(body) ==
    IF body.text = "object"
    THEN [ok |-> TRUE, value |-> [type |-> body.type, content |-> body.content]]
    ELSE [ok |-> FALSE, value |-> NoValue]

Interfaces ==
    [res_body_type : {"json", "raw"},
     res_body_is_json_schema : BOOLEAN,
     res_body : ResBodies,
     pathParams : 0..MaxPathParams,
     typesOnly : BOOLEAN]

\* isFileDownloadInterface(interfaceInfo)
isFileDownloadInterface(interfaceInfo) ==
    /\ interfaceInfo.res_body_type = "json"
    /\ interfaceInfo.res_body_is_json_schema
    /\ interfaceInfo.res_body.text # "empty"
    /\ LET parsed == JSONParse(interfaceInfo.res_body)
       IN /\ parsed.ok
          /\ parsed.value.type = "object"
          /\ parsed.value.content \in {"application/octet-stream", "*/*"}

\* the argument list of the generated call, including the request
\* parameters argument whenever the path has no parameter
RequestArgs(originalPathParamNames, isDownloadInterface) ==
    <<"path">>
        \o (IF originalPathParamNames > 0
            THEN IF isDownloadInterface THEN <<"undefined">> ELSE <<>>
            ELSE <<"params">>)
        \o (IF isDownloadInterface THEN <<"{ responseType: 'blob' }">> ELSE <<>>)

InitRequest ==
    /\ rIface \in Interfaces
    /\ rPhase = "in"
    /\ rFlag = FALSE
    /\ rArgs = <<>>
    /\ RunIdle
    /\ GenerateIdle
    /\ CategoryIdle
    /\ SortIdle
    /\ OtherUtilIdle("request")

requestRest == <<genVars, runVars, catVars, sortVars, schemaVars, namesVars, ifaceVars, fetchVars, apifoxVars,
    writeVars,
    paramsVars,
    prefixVars,
    bucketVars,
    callVars,
    cleanVars>>

\* const isDownloadInterface = isFileDownloadInterface(extendedInterfaceInfo)
DetectDownload ==
    /\ rPhase = "in"
    /\ rFlag' = isFileDownloadInterface(rIface)
    /\ rPhase' = "flagged"
    /\ UNCHANGED <<rIface, rArgs, requestRest>>

\* the template of the request function (typesOnly unset)
GenerateRequestFunction ==
    /\ rPhase = "flagged"
    /\ ~rIface.typesOnly
    /\ rArgs' = RequestArgs(rIface.pathParams, rFlag)
    /\ rPhase' = "generated"
    /\ UNCHANGED <<rIface, rFlag, requestRest>>

\* typesOnly: the two types and no request function
GenerateTypesOnly ==
    /\ rPhase = "flagged"
    /\ rIface.typesOnly
    /\ rPhase' = "types"
    /\ UNCHANGED <<rIface, rFlag, rArgs, requestRest>>

NextRequest ==
    \/ DetectDownload
    \/ GenerateRequestFunction
    \/ GenerateTypesOnly

SpecRequest == InitRequest /\ [][NextRequest]_vars

\* ------------------------------------------------------------------------
\* SpecInterface: the interface tasks of one category task
\* (cli.ts:508-554), each reading its request and response body
\* (getRequestDataJsonSchema, getResponseDataJsonSchema)
\* ------------------------------------------------------------------------
\* a parser that accepts every text
JSON5Lenient(body) == [ok |-> TRUE, value |-> NoValue]

\* JSON5.parse(body)
JSON5Parse(body) ==
    IF body.text \in {"object", "json5"}
    THEN [ok |-> TRUE, value |-> NoValue]
    ELSE [ok |-> FALSE, value |-> NoValue]

\* the body texts: empty, a JSON object, a text only JSON5 accepts (single
\* quotes, trailing comma), a text neither parser accepts
BodyTexts ==
    {[text |-> "empty"], [text |-> "object", type |-> "object", content |-> NoValue],
     [text |-> "json5"], [text |-> "unparseable"]}

isGetLikeMethod(method) == method \in {"GET", "OPTIONS", "HEAD"}

isPostLikeMethod(method) == ~isGetLikeMethod(method)

\* the body parse of a schema string or of a JSON / mock template
ParseBody(body, isJsonSchema) ==
    IF isJsonSchema THEN JSONParse(body) ELSE JSON5Parse(body)

\* getRequestDataJsonSchema: TRUE when it returns, FALSE when it throws
getRequestDataJsonSchema(interfaceInfo) ==
    IF /\ isPostLikeMethod(interfaceInfo.method)
       /\ interfaceInfo.req_body_type = "json"
       /\ interfaceInfo.req_body_other.text # "empty"
    THEN ParseBody(interfaceInfo.req_body_other, interfaceInfo.req_body_is_json_schema).ok
    ELSE TRUE

\* getResponseDataJsonSchema: TRUE when it returns, FALSE when it throws
getResponseDataJsonSchema(interfaceInfo) ==
    IF /\ interfaceInfo.res_body_type = "json"
       /\ interfaceInfo.res_body.text # "empty"
    THEN ParseBody(interfaceInfo.res_body, interfaceInfo.res_body_is_json_schema).ok
    ELSE TRUE

AnyInterface ==
    [method : {"GET", "POST"},
     req_body_type : {"json", "form"},
     req_body_is_json_schema : BOOLEAN,
     req_body_other : BodyTexts,
     res_body_type : {"json", "raw"},
     res_body_is_json_schema : BOOLEAN,
     res_body : BodyTexts]

ObjectBody == [text |-> "object", type |-> "object", content |-> NoValue]

\* the other interfaces of the category: a POST and a GET with JSON bodies,
\* a POST whose response body no parser accepts
OtherInterfaces ==
    {[method |-> m, req_body_type |-> "json", req_body_is_json_schema |-> TRUE,
      req_body_other |-> ObjectBody, res_body_type |-> "json",
      res_body_is_json_schema |-> FALSE, res_body |-> b] :
        <<m, b>> \in {<<"POST", ObjectBody>>, <<"GET", ObjectBody>>,
                      <<"POST", [text |-> "unparseable"]>>}}

InitInterface ==
    /\ \E first \in AnyInterface, rest \in SeqsUpTo(OtherInterfaces, MaxInterfaceList - 1) :
          iList = <<first>> \o rest
    /\ iTask = [i \in DOMAIN iList |-> "start"]
    /\ iResult = "pending"
    /\ iCodes = <<>>
    /\ RunIdle
    /\ GenerateIdle
    /\ CategoryIdle
    /\ SortIdle
    /\ OtherUtilIdle("interface")

ifaceRest == <<genVars, runVars, catVars, sortVars, schemaVars, namesVars, requestVars, fetchVars, apifoxVars,
    writeVars,
    paramsVars,
    prefixVars,
    bucketVars,
    callVars,
    cleanVars>>

\* generateInterfaceCode up to the request type (cli.ts:1106-1113)
ReadRequest(i) ==
    /\ iTask[i] = "start"
    /\ iTask' = [iTask EXCEPT ![i] = IF getRequestDataJsonSchema(iList[i])
                                      THEN "request" ELSE "rejected"]
    /\ UNCHANGED <<iList, iResult, iCodes, ifaceRest>>

\* generateInterfaceCode from the response schema on (cli.ts:1115-1123)
ReadResponse(i) ==
    /\ iTask[i] = "request"
    /\ iTask' = [iTask EXCEPT ![i] = IF getResponseDataJsonSchema(iList[i])
                                      THEN "fulfilled" ELSE "rejected"]
    /\ UNCHANGED <<iList, iResult, iCodes, ifaceRest>>

\* Promise.all(interfaceCodes) fulfils with the code of every interface
InterfaceCodesFulfilled ==
    /\ iResult = "pending"
    /\ \A i \in DOMAIN iTask : iTask[i] = "fulfilled"
    /\ iResult' = "fulfilled"
    /\ iCodes' = [i \in DOMAIN iList |-> i]
    /\ UNCHANGED <<iList, iTask, ifaceRest>>

\* Promise.all(interfaceCodes) rejects with the first rejection; nothing
\* between it and run() catches
InterfaceCodesRejected ==
    /\ iResult = "pending"
    /\ \E i \in DOMAIN iTask : iTask[i] = "rejected"
    /\ iResult' = "rejected"
    /\ UNCHANGED <<iList, iTask, iCodes, ifaceRest>>

NextInterface ==
    \/ \E i \in DOMAIN iList : ReadRequest(i)
    \/ \E i \in DOMAIN iList : ReadResponse(i)
    \/ InterfaceCodesFulfilled
    \/ InterfaceCodesRejected

SpecInterface == InitInterface /\ [][NextInterface]_vars

\* ------------------------------------------------------------------------
\* SpecFetch: Generator.fetchApi over httpGet (cli.ts:963-978,
\* apifox.ts:828-846) and fetchApifoxOpenAPI (apifox.ts:88-113)
\* ------------------------------------------------------------------------
JsonContentType == "application/json"

\* the answers of the upstream: a status, a content type and a body that is
\* a JSON payload with data, a JSON payload with a non-zero errcode, a JSON
\* payload with neither (an error page of a gateway), or no JSON at all
Responses ==
    [status : {200, 201, 500},
     contentType : {JsonContentType, "text/html"},
     body : {"data", "errcode", "message", "notjson"}]

NoError == <<>>

\* an Error and what its message holds
Error(url, params) == [url |-> url, params |-> params]

\* res.json() of node-fetch: the parsed body whatever the status and the
\* content type; a FetchError naming the request URL (with its query
\* string) when the body is no JSON
ResJson(response) ==
    IF response.body = "notjson"
    THEN [ok |-> FALSE, error |-> Error(TRUE, TRUE)]
    ELSE [ok |-> TRUE, error |-> NoError]

\* if (res && res.errcode) throwError(`${errmsg} [url] [params]`)
HasErrcode(response) == response.body = "errcode"

\* axios rejects with an AxiosError unless validateStatus (2xx) holds
AxiosRejects(response) == ~(response.status >= 200 /\ response.status < 300)

InitFetch ==
    /\ fApi \in {"fetchApi", "fetchApifoxOpenAPI"}
    /\ \E n \in 1..MaxCalls : fResponses \in [1..n -> Responses]
    /\ fCall = 1
    /\ fSent = [k \in DOMAIN fResponses |-> IF k = 1 THEN 1 ELSE 0]
    /\ fPc = "sent"
    /\ fOutcome = "pending"
    /\ fError = NoError
    /\ RunIdle
    /\ GenerateIdle
    /\ CategoryIdle
    /\ SortIdle
    /\ OtherUtilIdle("fetch")

fetchRest == <<genVars, runVars, catVars, sortVars, schemaVars, namesVars, requestVars,
               ifaceVars, apifoxVars,
    writeVars,
    paramsVars,
    prefixVars,
    bucketVars,
    callVars,
    cleanVars>>

\* the fetch throws: the rejection leaves generate(), nothing issues the
\* request again
Fail(error) ==
    /\ fOutcome' = "failed"
    /\ fError' = error
    /\ fPc' = "done"
    /\ UNCHANGED <<fApi, fResponses, fCall, fSent, fetchRest>>

\* the fetch returns: the run goes on to its next request, if any
Return ==
    /\ fError' = fError
    /\ IF fCall < Len(fResponses)
       THEN /\ fCall' = fCall + 1
            /\ fSent' = [fSent EXCEPT ![fCall + 1] = @ + 1]
            /\ fPc' = "sent"
            /\ fOutcome' = fOutcome
       ELSE /\ fOutcome' = "returned"
            /\ fPc' = "done"
            /\ UNCHANGED <<fCall, fSent>>
    /\ UNCHANGED <<fApi, fResponses, fetchRest>>

\* httpGet: await nodeFetch(url), return res.json()
HttpGet ==
    /\ fApi = "fetchApi"
    /\ fPc = "sent"
    /\ LET res == ResJson(fResponses[fCall])
       IN IF res.ok
          THEN /\ fPc' = "parsed"
               /\ UNCHANGED <<fApi, fResponses, fCall, fSent, fOutcome, fError, fetchRest>>
          ELSE Fail(res.error)

\* fetchApi after httpGet returned
FetchApiCheck ==
    /\ fApi = "fetchApi"
    /\ fPc = "parsed"
    /\ IF HasErrcode(fResponses[fCall]) THEN Fail(Error(TRUE, TRUE)) ELSE Return

\* fetchApifoxOpenAPI: await axios.post(url, requestBody); an AxiosError is
\* thrown again as Error(`Apifox API 请求失败: ${message}`)
AxiosPost ==
    /\ fApi = "fetchApifoxOpenAPI"
    /\ fPc = "sent"
    /\ IF AxiosRejects(fResponses[fCall])
       THEN Fail(Error(FALSE, FALSE))
       ELSE /\ fPc' = "response"
            /\ UNCHANGED <<fApi, fResponses, fCall, fSent, fOutcome, fError, fetchRest>>

\* fetchApifoxOpenAPI after axios.post returned: status and content type
ApifoxCheck ==
    /\ fApi = "fetchApifoxOpenAPI"
    /\ fPc = "response"
    /\ IF \/ fResponses[fCall].status # 200
          \/ fResponses[fCall].contentType # JsonContentType
       THEN Fail(Error(FALSE, FALSE))
       ELSE Return

NextFetch ==
    \/ HttpGet
    \/ FetchApiCheck
    \/ AxiosPost
    \/ ApifoxCheck

SpecFetch == InitFetch /\ [][NextFetch]_vars

\* ------------------------------------------------------------------------
\* SpecApifox: Generator.prepare for one apifox server (cli.ts:295-309) and
\* the url of fetchApifoxOpenAPI (apifox.ts:29-92)
\* ------------------------------------------------------------------------
\* String.prototype.includes
Includes(str, sub) ==
    \E i \in 0..(Len(str) - Len(sub)) : SubSeq(str, i + 1, i + Len(sub)) = sub

RECURSIVE StripTrailingSlashes(_)
\* .replace(/\/+$/, "")
StripTrailingSlashes(str) ==
    IF str # <<>> /\ str[Len(str)] = "/"
    THEN StripTrailingSlashes(SubSeq(str, 1, Len(str) - 1))
    ELSE str

DefaultProjectId == Chars("6720131")

\* item.apifoxProjectId || "6720131"
ProjectIdOption(apifoxProjectId) ==
    IF apifoxProjectId = <<>> THEN DefaultProjectId ELSE apifoxProjectId

IsFullExportUrl(serverUrl) ==
    Includes(serverUrl, Chars("/v1/projects/")) /\ Includes(serverUrl, Chars("/export-openapi"))

\* a url that always gets the export path appended
AppendedExportUrl(serverUrl, projectId) ==
    StripTrailingSlashes(serverUrl) \o Chars("/v1/projects/") \o projectId
        \o Chars("/export-openapi") \o Chars("?locale=zh-CN")

\* the url of the export request (apifox.ts:53-68)
ExportUrl(serverUrl, projectId) ==
    (IF IsFullExportUrl(serverUrl)
     THEN serverUrl
     ELSE StripTrailingSlashes(serverUrl) \o Chars("/v1/projects/") \o projectId
              \o Chars("/export-openapi"))
        \o Chars("?locale=zh-CN")

Hosts == {Chars("https://api.apifox.com"), Chars("http://h")}

UrlParts ==
    {Chars("/"), Chars("/v1/projects/"), Chars("42"), Chars("/export-openapi")}

\* unset (or empty), the default project and another project
ProjectIds == {<<>>, DefaultProjectId, Chars("42")}

InitApifox ==
    /\ \E host \in Hosts, parts \in SeqsUpTo(UrlParts, MaxUrlParts),
          id \in ProjectIds :
          aConfig = [serverUrl |-> host \o Flatten(parts), apifoxProjectId |-> id]
    /\ aPc = "prepare"
    /\ aOptions = <<>>
    /\ aRequests = <<>>
    /\ RunIdle
    /\ GenerateIdle
    /\ CategoryIdle
    /\ SortIdle
    /\ OtherUtilIdle("apifox")

apifoxRest == <<genVars, runVars, catVars, sortVars, schemaVars, namesVars, requestVars,
                ifaceVars, fetchVars,
    writeVars,
    paramsVars,
    prefixVars,
    bucketVars,
    callVars,
    cleanVars>>

\* prepare(): new ApifoxToYApiServer({serverUrl, token, projectId}); start()
PrepareAdapter ==
    /\ aPc = "prepare"
    /\ aOptions' = [serverUrl |-> aConfig.serverUrl,
                    projectId |-> ProjectIdOption(aConfig.apifoxProjectId)]
    /\ aPc' = "start"
    /\ UNCHANGED <<aConfig, aRequests, apifoxRest>>

\* fetchApifoxOpenAPI: throws without a project id, posts otherwise
FetchOpenAPI ==
    /\ aPc = "start"
    /\ IF aOptions.projectId = <<>>
       THEN /\ aPc' = "failed"
            /\ UNCHANGED aRequests
       ELSE /\ aRequests' = Append(aRequests, ExportUrl(aOptions.serverUrl, aOptions.projectId))
            /\ aPc' = "posted"
    /\ UNCHANGED <<aConfig, aOptions, apifoxRest>>

NextApifox ==
    \/ PrepareAdapter
    \/ FetchOpenAPI

SpecApifox == InitApifox /\ [][NextApifox]_vars

\* ------------------------------------------------------------------------
\* SpecWrite: the tasks of Generator.write (cli.ts:729-914) on the shared
\* request-function file
\* ------------------------------------------------------------------------
Absent == "absent"

RequestPaths == {"request.ts", "request.js"}

\* .replace(/\.js(x)?$/, ".ts$1")
TsPath(filePath) == IF filePath = "request.js" THEN "request.ts" ELSE filePath

BucketConfigs == [typesOnly : BOOLEAN, target : {"typescript", "javascript"}]

InitWrite ==
    /\ wBuckets \in UNION {[1..n -> BucketConfigs] : n \in 1..MaxBuckets}
    /\ wRequestPath \in RequestPaths
    /\ wFs0 \in [RequestPaths -> {Absent, "user content"}]
    /\ wFs = wFs0
    /\ wTask = [b \in DOMAIN wBuckets |-> [pc |-> "start", absentAtCheck |-> FALSE]]
    /\ wWrites = {}
    /\ RunIdle
    /\ GenerateIdle
    /\ CategoryIdle
    /\ SortIdle
    /\ OtherUtilIdle("write")

writeRest == <<genVars, runVars, catVars, sortVars, schemaVars, namesVars, requestVars,
               ifaceVars, fetchVars, apifoxVars,
    paramsVars,
    prefixVars,
    bucketVars,
    callVars,
    cleanVars>>

\* typesOnly: the request file is neither looked at nor written
SkipRequestFile(b) ==
    /\ wTask[b].pc = "start"
    /\ wBuckets[b].typesOnly
    /\ wTask' = [wTask EXCEPT ![b].pc = "main"]
    /\ UNCHANGED <<wBuckets, wRequestPath, wFs0, wFs, wWrites, writeRest>>

\* await fs.pathExists(rawRequestFunctionFilePath)
CheckRequestFile(b) ==
    /\ wTask[b].pc = "start"
    /\ ~wBuckets[b].typesOnly
    /\ wTask' = [wTask EXCEPT ![b] =
                    [pc |-> IF wFs[wRequestPath] = Absent THEN "request" ELSE "main",
                     absentAtCheck |-> wFs[TsPath(wRequestPath)] = Absent]]
    /\ UNCHANGED <<wBuckets, wRequestPath, wFs0, wFs, wWrites, writeRest>>

\* await fs.outputFile(requestFunctionFilePath, the default request function)
WriteRequestFile(b) ==
    /\ wTask[b].pc = "request"
    /\ wFs' = [wFs EXCEPT ![TsPath(wRequestPath)] = "default request function"]
    /\ wWrites' = wWrites \cup {[bucket |-> b, path |-> TsPath(wRequestPath),
                                 absentAtCheck |-> wTask[b].absentAtCheck]}
    /\ wTask' = [wTask EXCEPT ![b].pc = "main"]
    /\ UNCHANGED <<wBuckets, wRequestPath, wFs0, writeRest>>

\* the main file is written; target typescript ends the task
WriteMainFile(b) ==
    /\ wTask[b].pc = "main"
    /\ wTask' = [wTask EXCEPT ![b].pc =
                    IF wBuckets[b].target = "javascript" THEN "tsc" ELSE "done"]
    /\ UNCHANGED <<wBuckets, wRequestPath, wFs0, wFs, wWrites, writeRest>>

\* target javascript: tsc compiles the main file and what it imports, then
\* fs.remove(requestFunctionFilePath)
CompileAndRemove(b) ==
    /\ wTask[b].pc = "tsc"
    /\ LET ts == TsPath(wRequestPath)
           compiled == IF ~wBuckets[b].typesOnly /\ wFs[ts] # Absent
                       THEN [wFs EXCEPT !["request.js"] = "compiled request function"]
                       ELSE wFs
       IN wFs' = [compiled EXCEPT ![ts] = Absent]
    /\ wTask' = [wTask EXCEPT ![b].pc = "done"]
    /\ UNCHANGED <<wBuckets, wRequestPath, wFs0, wWrites, writeRest>>

NextWrite ==
    \/ \E b \in DOMAIN wBuckets : SkipRequestFile(b)
    \/ \E b \in DOMAIN wBuckets : CheckRequestFile(b)
    \/ \E b \in DOMAIN wBuckets : WriteRequestFile(b)
    \/ \E b \in DOMAIN wBuckets : WriteMainFile(b)
    \/ \E b \in DOMAIN wBuckets : CompileAndRemove(b)

SpecWrite == InitWrite /\ [][NextWrite]_vars

\* ------------------------------------------------------------------------
\* SpecParams: getRequestDataJsonSchema (utils/apifox.ts:552-653) merging
\* the body, the query parameters and the path parameters
\* ------------------------------------------------------------------------
RequiredTrue == "1"

\* the schema of one property: { type: prop.type, description: prop.comment },
\* with tsType for a file
PropSchema(type) ==
    [EmptySchema EXCEPT
        !.type = TypeOf(type),
        !.keywords = IF type = Chars("file") THEN {"description", "tsType"}
                     ELSE {"description"}]

RECURSIVE PropEntries(_)
\* propDefinitions.reduce((res, prop) => { res[prop.name] = ...; return res }, {})
PropEntries(propDefinitions) ==
    IF propDefinitions = <<>> THEN <<>>
    ELSE LET prop == Last(propDefinitions)
         IN PutEntry(PropEntries(SubSeq(propDefinitions, 1, Len(propDefinitions) - 1)),
                     prop.name, PropSchema(prop.type))

\* propDefinitions.reduce((res, prop) => { if (prop.required) res.push(prop.name) })
RequiredNames(propDefinitions) ==
    EntryNames(SelectSeq(propDefinitions, LAMBDA prop : prop.required))

propDefinitionsToJsonSchema(propDefinitions, customTypeMapping) ==
    processJsonSchema(
        [EmptySchema EXCEPT
            !.type = TypeOf(ObjectName),
            !.required = RequiredNames(propDefinitions),
            !.props = [present |-> TRUE, entries |-> PropEntries(propDefinitions)]],
        customTypeMapping)

\* item.type || "string"
TypeOrString(type) == IF type = <<>> THEN Chars("string") ELSE type

\* required: item.required === Required.true
DeclaredRequired(item) == item.required = RequiredTrue

\* a variant that takes the declared flag of a path parameter
DeclaredPathParamRequired(item) == item.required = RequiredTrue

\* required: true
PathParamRequired(item) == TRUE

FormProps(req_body_form) ==
    [i \in DOMAIN req_body_form |->
        [name |-> req_body_form[i].name,
         required |-> DeclaredRequired(req_body_form[i]),
         type |-> IF req_body_form[i].type = Chars("file") THEN Chars("file")
                  ELSE Chars("string")]]

QueryProps(req_query) ==
    [i \in DOMAIN req_query |->
        [name |-> req_query[i].name,
         required |-> DeclaredRequired(req_query[i]),
         type |-> TypeOrString(req_query[i].type)]]

PathProps(req_params) ==
    [i \in DOMAIN req_params |->
        [name |-> req_params[i].name,
         required |-> PathParamRequired(req_params[i]),
         type |-> TypeOrString(req_params[i].type)]]

RECURSIVE SpreadEntries(_, _)
\* { ...properties, ...more }
SpreadEntries(entries, more) ==
    IF more = <<>> THEN entries
    ELSE SpreadEntries(PutEntry(entries, Head(more).name, Head(more).value), Tail(more))

\* jsonSchema.properties = {...}; jsonSchema.required = [...]
MergeInto(jsonSchema, other) ==
    [jsonSchema EXCEPT
        !.props = [present |-> TRUE,
                   entries |-> SpreadEntries(@.entries, other.props.entries)],
        !.required = @ \o other.required]

NoSchema == [defined |-> FALSE, schema |-> EmptySchema]

Defined(jsonSchema) == [defined |-> TRUE, schema |-> jsonSchema]

\* the body step: POST-like methods only, a form or a JSON schema
BodySchema(interfaceInfo, customTypeMapping) ==
    IF ~isPostLikeMethod(interfaceInfo.method) THEN NoSchema
    ELSE IF interfaceInfo.req_body_type = "form"
    THEN Defined(propDefinitionsToJsonSchema(FormProps(interfaceInfo.req_body_form),
                                             customTypeMapping))
    ELSE IF interfaceInfo.req_body_type = "json" /\ interfaceInfo.req_body_other.defined
    THEN Defined(processJsonSchema(interfaceInfo.req_body_other.schema,
                                   customTypeMapping))
    ELSE NoSchema

\* one of the two later steps: skipped for an empty list
MergeStep(jsonSchema, props, customTypeMapping) ==
    IF props = <<>> THEN jsonSchema
    ELSE LET more == propDefinitionsToJsonSchema(props, customTypeMapping)
         IN IF jsonSchema.defined THEN Defined(MergeInto(jsonSchema.schema, more))
            ELSE Defined(more)

\* getRequestDataJsonSchema(interfaceInfo, customTypeMapping): jsonSchema || {}
RequestDataJsonSchema(interfaceInfo, customTypeMapping) ==
    LET body == BodySchema(interfaceInfo, customTypeMapping)
        withQuery == MergeStep(body, QueryProps(interfaceInfo.req_query),
                               customTypeMapping)
        withPath == MergeStep(withQuery, PathProps(interfaceInfo.req_params),
                              customTypeMapping)
    IN withPath.schema

ParamNames == {Chars("a"), Chars(" a")}

QueryItems == [name : ParamNames, required : {"0", RequiredTrue}, type : {<<>>}]

PathItems == [name : ParamNames, required : {"0", RequiredTrue},
              type : {Chars("integer")}]

BodyForm == <<[name |-> Chars("b"), required |-> "0", type |-> Chars("text")],
              [name |-> Chars("a"), required |-> RequiredTrue, type |-> Chars("file")]>>

BodyObject ==
    [EmptySchema EXCEPT
        !.type = TypeOf(ObjectName),
        !.required = <<Chars(" a")>>,
        !.props = [present |-> TRUE,
                   entries |-> <<[name |-> Chars(" a"),
                                  value |-> PropSchema(Chars("boolean"))]>>]]

BodyArray ==
    [EmptySchema EXCEPT
        !.type = TypeOf(ArrayName),
        !.items = [form |-> "single", list |-> <<PropSchema(Chars("string"))>>]]

Bodies ==
    {[req_body_type |-> "form", req_body_form |-> BodyForm, req_body_other |-> NoSchema],
     [req_body_type |-> "json", req_body_form |-> <<>>, req_body_other |-> NoSchema],
     [req_body_type |-> "json", req_body_form |-> <<>>,
      req_body_other |-> Defined(BodyObject)],
     [req_body_type |-> "json", req_body_form |-> <<>>,
      req_body_other |-> Defined(BodyArray)]}

InitParams ==
    /\ \E method \in {"GET", "POST"}, body \in Bodies,
          req_query \in SeqsUpTo(QueryItems, MaxProps),
          req_params \in SeqsUpTo(PathItems, MaxProps) :
            qIface = [method |-> method, req_body_type |-> body.req_body_type,
                      req_body_form |-> body.req_body_form,
                      req_body_other |-> body.req_body_other,
                      req_query |-> req_query, req_params |-> req_params]
    /\ qSchema = EmptySchema
    /\ qPc = "start"
    /\ RunIdle
    /\ GenerateIdle
    /\ CategoryIdle
    /\ SortIdle
    /\ OtherUtilIdle("params")

paramsRest == <<genVars, runVars, catVars, sortVars, schemaVars, namesVars, requestVars,
                ifaceVars, fetchVars, apifoxVars, writeVars,
    prefixVars,
    bucketVars,
    callVars,
    cleanVars>>

GetRequestSchema ==
    /\ qPc = "start"
    /\ qSchema' = RequestDataJsonSchema(qIface, <<>>)
    /\ qPc' = "done"
    /\ UNCHANGED <<qIface, paramsRest>>

NextParams == GetRequestSchema

SpecParams == InitParams /\ [][NextParams]_vars

\* ------------------------------------------------------------------------
\* SpecPrefix: the map of generate() over the interfaces of one fetched
\* category (cli.ts:459-506): back reference, preprocessing, path prefix
\* ------------------------------------------------------------------------
StartsWith(str, prefix) ==
    Len(prefix) <= Len(str) /\ SubSeq(str, 1, Len(prefix)) = prefix

Substring(str, start) == SubSeq(str, start + 1, Len(str))

RECURSIVE StripEveryPrefix(_, _)
\* a variant that strips the prefix as often as the path starts with it
StripEveryPrefix(path, pathPrefix) ==
    IF pathPrefix # <<>> /\ StartsWith(path, pathPrefix)
    THEN StripEveryPrefix(Substring(path, Len(pathPrefix)), pathPrefix)
    ELSE IF StartsWith(path, <<"/">>) THEN path ELSE <<"/">> \o path

\* if (path.startsWith(pathPrefix)) { path = path.substring(pathPrefix.length);
\*   if (!path.startsWith("/")) path = "/" + path }
StripPrefix(path, pathPrefix) ==
    IF StartsWith(path, pathPrefix)
    THEN LET rest == Substring(path, Len(pathPrefix))
         IN IF StartsWith(rest, <<"/">>) THEN rest ELSE <<"/">> \o rest
    ELSE path

\* if (_interfaceInfo && syntheticalConfig.pathPrefix)
WithPathPrefix(interfaceInfo, pathPrefix) ==
    IF pathPrefix # <<>>
    THEN [interfaceInfo EXCEPT !.path = StripPrefix(@, pathPrefix)]
    ELSE interfaceInfo

\* interfaceInfo._project = omit(projectInfo, ...)
WithProject(interfaceInfo) == [interfaceInfo EXCEPT !._project = TRUE]

ConfiguredPrefixes == {<<>>, Chars("/api"), Chars("/api/")}

\* no function, a function returning its argument, a function returning false
Preprocessors == {"none", "same", "false"}

FetchedPaths ==
    {Chars("/api/user"), Chars("/api/api/user"), Chars("/apiuser"), Chars("/api"),
     Chars("/user/api")}

FetchedLists ==
    UNION {{[i \in 1..n |-> [_id |-> ids[i], path |-> paths[i], _project |-> FALSE]] :
                ids \in Permutations(1..n), paths \in [1..n -> FetchedPaths]} :
           n \in 1..MaxFetched}

InitPrefix ==
    /\ xConfig \in [pathPrefix : ConfiguredPrefixes, preproccessInterface : Preprocessors]
    /\ xFetched \in {[i \in DOMAIN l |-> l[i]] : l \in FetchedLists}
    /\ xHeap = xFetched
    /\ xList = <<>>
    /\ xNames = <<>>
    /\ xPc = "map"
    /\ RunIdle
    /\ GenerateIdle
    /\ CategoryIdle
    /\ SortIdle
    /\ OtherUtilIdle("prefix")

prefixRest == <<genVars, runVars, catVars, sortVars, schemaVars, namesVars, requestVars,
                ifaceVars, fetchVars, apifoxVars, writeVars, paramsVars,
    bucketVars,
    callVars,
    cleanVars>>

\* the callback of the map on the next interface, no preproccessInterface:
\* _interfaceInfo is the fetched object
MapInPlace ==
    /\ xPc = "map"
    /\ Len(xList) < Len(xFetched)
    /\ xConfig.preproccessInterface = "none"
    /\ LET i == Len(xList) + 1
       IN /\ xHeap' = [xHeap EXCEPT ![i] = WithPathPrefix(WithProject(@),
                                                          xConfig.pathPrefix)]
          /\ xList' = Append(xList, i)
    /\ UNCHANGED <<xConfig, xFetched, xNames, xPc, prefixRest>>

\* preproccessInterface(cloneDeep(interfaceInfo), ...) returns the clone
MapClone ==
    /\ xPc = "map"
    /\ Len(xList) < Len(xFetched)
    /\ xConfig.preproccessInterface = "same"
    /\ LET i == Len(xList) + 1
           interfaceInfo == WithProject(xHeap[i])
       IN /\ xHeap' = Append([xHeap EXCEPT ![i] = interfaceInfo],
                             WithPathPrefix(interfaceInfo, xConfig.pathPrefix))
          /\ xList' = Append(xList, Len(xHeap) + 1)
    /\ UNCHANGED <<xConfig, xFetched, xNames, xPc, prefixRest>>

\* preproccessInterface returns false: the interface is left out
MapFalse ==
    /\ xPc = "map"
    /\ Len(xList) < Len(xFetched)
    /\ xConfig.preproccessInterface = "false"
    /\ LET i == Len(xList) + 1
       IN /\ xHeap' = [xHeap EXCEPT ![i] = WithProject(@)]
          /\ xList' = Append(xList, 0)
    /\ UNCHANGED <<xConfig, xFetched, xNames, xPc, prefixRest>>

RECURSIVE SortRefsById(_, _)
\* interfaceList.sort((a, b) => a._id - b._id)
SortRefsById(refs, heap) ==
    IF refs = <<>> THEN <<>>
    ELSE LET least == CHOOSE r \in Range(refs) :
                          \A s \in Range(refs) : heap[r]._id <= heap[s]._id
         IN <<least>> \o SortRefsById(SelectSeq(refs, LAMBDA r : r # least), heap)

\* .filter(Boolean), then the sort
FilterAndSort ==
    /\ xPc = "map"
    /\ Len(xList) = Len(xFetched)
    /\ xList' = SortRefsById(SelectSeq(xList, LAMBDA r : r # 0), xHeap)
    /\ xPc' = "synth"
    /\ UNCHANGED <<xConfig, xFetched, xHeap, xNames, prefixRest>>

\* generateInterfaceCode on every interface of the list
GenerateCodes ==
    /\ xPc = "synth"
    /\ xNames' = [k \in DOMAIN xList |->
                     getRequestFunctionName(Chars("GET"), xHeap[xList[k]].path)]
    /\ xPc' = "done"
    /\ UNCHANGED <<xConfig, xFetched, xHeap, xList, prefixRest>>

NextPrefix == MapInPlace \/ MapClone \/ MapFalse \/ FilterAndSort \/ GenerateCodes

SpecPrefix == InitPrefix /\ [][NextPrefix]_vars

\* ------------------------------------------------------------------------
\* SpecBuckets: the buckets of outputFileList, created by the category task
\* that reaches an output path first (cli.ts:560-620); two runs of the same
\* configuration, each with its own completion order
\* ------------------------------------------------------------------------
Runs == {1, 2}

NoBucket == [recorded |-> FALSE]

OutputFiles == {[dir |-> "src/service", base |-> "a.ts"],
                [dir |-> "src/other", base |-> "a.ts"]}

SyntheticalConfigs ==
    [typesOnly : BOOLEAN,
     requestFunctionFilePath : {"", "src/request.ts"},
     reactHooks : BOOLEAN]

\* path.resolve(cwd, configured) or path.join(path.dirname(outputFilePath), "request.ts")
RequestFunctionFilePath(syntheticalConfig, outputFilePath) ==
    IF syntheticalConfig.requestFunctionFilePath # ""
    THEN "/cwd/" \o syntheticalConfig.requestFunctionFilePath
    ELSE outputFilePath.dir \o "/request.ts"

\* reactHooks.enabled: path.join(path.dirname(outputFilePath), "makeRequestHook.ts")
RequestHookMakerFilePath(syntheticalConfig, outputFilePath) ==
    IF syntheticalConfig.reactHooks
    THEN outputFilePath.dir \o "/makeRequestHook.ts"
    ELSE ""

NewBucket(syntheticalConfig, outputFilePath) ==
    [recorded |-> TRUE,
     syntheticalConfig |-> syntheticalConfig,
     requestFunctionFilePath |-> RequestFunctionFilePath(syntheticalConfig, outputFilePath),
     requestHookMakerFilePath |-> RequestHookMakerFilePath(syntheticalConfig,
                                                           outputFilePath)]

\* if (!outputFileList[outputFilePath]) outputFileList[outputFilePath] = {...}
RecordBucket(ofl, syntheticalConfig, outputFilePath) ==
    IF ofl[outputFilePath].recorded THEN ofl
    ELSE [ofl EXCEPT ![outputFilePath] = NewBucket(syntheticalConfig, outputFilePath)]

InitBuckets ==
    /\ kTasks \in UNION {[1..n -> [syntheticalConfig : SyntheticalConfigs,
                                   outputFilePath : OutputFiles]] : n \in 1..MaxCatTasks}
    /\ kDone = [r \in Runs |-> {}]
    /\ kBuckets = [r \in Runs |-> [p \in OutputFiles |-> NoBucket]]
    /\ RunIdle
    /\ GenerateIdle
    /\ CategoryIdle
    /\ SortIdle
    /\ OtherUtilIdle("buckets")

bucketsRest == <<genVars, runVars, catVars, sortVars, schemaVars, namesVars, requestVars,
                 ifaceVars, fetchVars, apifoxVars, writeVars, paramsVars, prefixVars,
    callVars,
    cleanVars>>

\* the continuation of category task t in run r, after its interface codes
\* are there
CategoryTaskCompletes(r, t) ==
    /\ t \notin kDone[r]
    /\ kBuckets' = [kBuckets EXCEPT ![r] =
                       RecordBucket(@, kTasks[t].syntheticalConfig,
                                    kTasks[t].outputFilePath)]
    /\ kDone' = [kDone EXCEPT ![r] = @ \cup {t}]
    /\ UNCHANGED <<kTasks, bucketsRest>>

NextBuckets == \E r \in Runs, t \in DOMAIN kTasks : CategoryTaskCompletes(r, t)

SpecBuckets == InitBuckets /\ [][NextBuckets]_vars

\* ------------------------------------------------------------------------
\* SpecCall: processPathParams (cli.ts:1137-1174) and the call of the
\* generated request function (cli.ts:1364-1388)
\* ------------------------------------------------------------------------
\* /^\d+$/.test(paramName)
IsNumeric(paramName) == paramName # <<>> /\ \A i \in DOMAIN paramName : IsDigit(paramName[i])

\* a variant that takes the name as it is
RawParamName(paramName) == paramName

\* a purely numeric name gets the prefix param_
ValidParamName(paramName) ==
    IF IsNumeric(paramName) THEN Chars("param_") \o paramName ELSE paramName

\* /\{[^}]+\}/.test(path)
HasPathParams(path) ==
    \E i \in DOMAIN path : path[i] = "{" /\ ClosingBrace(path, i) > i + 1

RECURSIVE ProcessFrom(_, _)
\* path.replace(/\{([^}]+)\}/g, ...), from position i on: the text and the
\* names pushed
ProcessFrom(path, i) ==
    IF i > Len(path)
    THEN [processedPath |-> <<>>, pathParamNames |-> <<>>, originalPathParamNames |-> <<>>]
    ELSE LET j == ClosingBrace(path, i)
         IN IF path[i] = "{" /\ j > i + 1
            THEN LET paramName == SubSeq(path, i + 1, j - 1)
                     rest == ProcessFrom(path, j + 1)
                 IN [processedPath |-> Chars("${params.") \o ValidParamName(paramName)
                                           \o Chars("}") \o rest.processedPath,
                     pathParamNames |-> <<ValidParamName(paramName)>>
                                           \o rest.pathParamNames,
                     originalPathParamNames |-> <<paramName>>
                                                   \o rest.originalPathParamNames]
            ELSE LET rest == ProcessFrom(path, i + 1)
                 IN [rest EXCEPT !.processedPath = <<path[i]>> \o @]

processPathParams(path) ==
    IF ~HasPathParams(path)
    THEN [processedPath |-> path, useTemplate |-> FALSE, pathParamNames |-> <<>>,
          originalPathParamNames |-> <<>>]
    ELSE LET replaced == ProcessFrom(path, 1)
         IN [processedPath |-> replaced.processedPath, useTemplate |-> TRUE,
             pathParamNames |-> replaced.pathParamNames,
             originalPathParamNames |-> replaced.originalPathParamNames]

\* the delimiter of a template string, as one character
Backtick == <<"backtick">>

\* the delimiter JSON.stringify puts around a string, as one character
DoubleQuote == <<"quote">>

\* useTemplate ? a template string of processedPath : JSON.stringify(processedPath)
UrlText(processed) ==
    IF processed.useTemplate THEN Backtick \o processed.processedPath \o Backtick
    ELSE DoubleQuote \o processed.processedPath \o DoubleQuote

\* request.method<Response>(url, ...)
RequestCall(path, isDownloadInterface) ==
    LET processed == processPathParams(path)
    IN [url |-> UrlText(processed),
        args |-> RequestArgs(Len(processed.originalPathParamNames), isDownloadInterface)]

PathPieces ==
    {Chars("/user"), Chars("/{id}"), Chars("/{12}"), Chars("/{}"), Chars("/{a1}"),
     Chars("/v{id}")}

InitCall ==
    /\ \E pieces \in SeqsUpTo(PathPieces, MaxPathPieces) : cPath = Flatten(pieces)
    /\ cDownload \in BOOLEAN
    /\ cCall = <<>>
    /\ cPc = "start"
    /\ RunIdle
    /\ GenerateIdle
    /\ CategoryIdle
    /\ SortIdle
    /\ OtherUtilIdle("call")

callRest == <<genVars, runVars, catVars, sortVars, schemaVars, namesVars, requestVars,
              ifaceVars, fetchVars, apifoxVars, writeVars, paramsVars, prefixVars,
              bucketVars,
    cleanVars>>

GenerateCall ==
    /\ cPc = "start"
    /\ cCall' = RequestCall(cPath, cDownload)
    /\ cPc' = "done"
    /\ UNCHANGED <<cPath, cDownload, callRest>>

NextCall == GenerateCall

SpecCall == InitCall /\ [][NextCall]_vars

\* ------------------------------------------------------------------------
\* SpecClean: Generator.cleanOutputDirectory (cli.ts:323-375)
\* ------------------------------------------------------------------------
OutputDir == "src/service"

RequestFiles == {[dir |-> OutputDir, base |-> "request.ts", n |-> 0],
                 [dir |-> "src/lib", base |-> "request.ts", n |-> 0]}

\* the generated files api1.ts, api2.ts, ...
GeneratedFiles == {[dir |-> OutputDir, base |-> "api.ts", n |-> i] : i \in 1..MaxGenerated}

Files == RequestFiles \cup GeneratedFiles

FileContents == {Absent, "", "export default request"}

\* fullRequestFilePath.startsWith(fullOutputDir + path.sep)
InOutputDir(filePath, outputDir) == filePath.dir = outputDir

\* fs.emptyDir(fullOutputDir): the directory exists and holds nothing
EmptyDir(fs, outputDir) ==
    [f \in DOMAIN fs |-> IF InOutputDir(f, outputDir) THEN Absent ELSE fs[f]]

\* if (requestFileContent) await fs.outputFile(fullRequestFilePath, requestFileContent)
Restore(fs, filePath, requestFileContent) ==
    IF requestFileContent # "" THEN [fs EXCEPT ![filePath] = requestFileContent] ELSE fs

InitClean ==
    /\ dConfig \in [outputDir : {OutputDir}, requestFunctionFilePath : RequestFiles]
    /\ dFs0 \in [Files -> FileContents]
    /\ dFs = dFs0
    /\ dDirExists \in BOOLEAN
    /\ (\E f \in Files : InOutputDir(f, OutputDir) /\ dFs0[f] # Absent) => dDirExists
    /\ dContent = ""
    /\ dWarned = FALSE
    /\ dPc = "start"
    /\ RunIdle
    /\ GenerateIdle
    /\ CategoryIdle
    /\ SortIdle
    /\ OtherUtilIdle("clean")

cleanRest == <<genVars, runVars, catVars, sortVars, schemaVars, namesVars, requestVars,
               ifaceVars, fetchVars, apifoxVars, writeVars, paramsVars, prefixVars,
               bucketVars, callVars>>

\* the output directory does not exist: return
NoOutputDir ==
    /\ dPc = "start"
    /\ ~dDirExists
    /\ dPc' = "returned"
    /\ UNCHANGED <<dConfig, dFs0, dFs, dDirExists, dContent, dWarned, cleanRest>>

\* the request file is outside the output directory: the directory is
\* emptied; inside: the file is looked at first
CheckRequestPath ==
    /\ dPc = "start"
    /\ dDirExists
    /\ dPc' = IF InOutputDir(dConfig.requestFunctionFilePath, dConfig.outputDir)
              THEN "read" ELSE "emptyAll"
    /\ UNCHANGED <<dConfig, dFs0, dFs, dDirExists, dContent, dWarned, cleanRest>>

\* requestFileContent = "", replaced by the content of an existing file
ReadRequestFile ==
    /\ dPc = "read"
    /\ dContent' = IF dFs[dConfig.requestFunctionFilePath] # Absent
                   THEN dFs[dConfig.requestFunctionFilePath] ELSE ""
    /\ dPc' = "empty"
    /\ UNCHANGED <<dConfig, dFs0, dFs, dDirExists, dWarned, cleanRest>>

\* await fs.emptyDir(fullOutputDir)
EmptyOutputDir ==
    /\ dPc \in {"empty", "emptyAll"}
    /\ dFs' = EmptyDir(dFs, dConfig.outputDir)
    /\ dPc' = IF dPc = "empty" THEN "restore" ELSE "returned"
    /\ UNCHANGED <<dConfig, dFs0, dDirExists, dContent, dWarned, cleanRest>>

RestoreRequestFile ==
    /\ dPc = "restore"
    /\ dFs' = Restore(dFs, dConfig.requestFunctionFilePath, dContent)
    /\ dPc' = "returned"
    /\ UNCHANGED <<dConfig, dFs0, dDirExists, dContent, dWarned, cleanRest>>

\* a file system call rejects: catch (error) { console.warn(...) }
FsError ==
    /\ dPc \in {"read", "empty", "emptyAll", "restore"}
    /\ dWarned' = TRUE
    /\ dPc' = "returned"
    /\ UNCHANGED <<dConfig, dFs0, dFs, dDirExists, dContent, cleanRest>>

NextClean ==
    \/ NoOutputDir
    \/ CheckRequestPath
    \/ ReadRequestFile
    \/ EmptyOutputDir
    \/ RestoreRequestFile
    \/ FsError

SpecClean == InitClean /\ [][NextClean]_vars

\* ------------------------------------------------------------------------
\* Claims about the category expansion (SpecCategory)
\* ------------------------------------------------------------------------
\* the expansion as the specification words it, on sets
ClaimedExpansion(L, K) ==
    LET all == Range(L) \cup (IF 0 \in Range(L) THEN Range(K) ELSE {})
        negatives == {n \in Range(L) : n < 0}
    IN {id \in all : \A n \in negatives : Abs(id) # Abs(n)} \cap Range(K)

\* C7: for a category config with id list L and a project with category ids
\* K, the expanded ids are (L, plus all of K when 0 is in L) minus every id
\* whose absolute value is that of a negative id in L, restricted to K, each
\* id once.
C7_CategoryExpansion ==
    categoryIds # NotYet =>
        /\ Range(categoryIds) = ClaimedExpansion(origIdList, projCats)
        /\ IsInjective(categoryIds)

\* L = [0, -3] on a project with three categories, 3 among them, has been
\* expanded to the two others
C7_Witness ==
    /\ origIdList = <<0, -3>>
    /\ Len(projCats) = 3
    /\ 3 \in Range(projCats)
    /\ categoryIds # NotYet
    /\ Range(categoryIds) = Range(projCats) \ {3}

\* C8: the expanded category id list is in ascending numeric order, so the
\* smaller id gets the smaller position index.
C8_AscendingNumeric ==
    categoryIds # NotYet =>
        \A i, j \in DOMAIN categoryIds :
            i < j => NumericLess(categoryIds[i], categoryIds[j])

\* ------------------------------------------------------------------------
\* Claims about sortByWeights (SpecSort)
\* ------------------------------------------------------------------------
\* component i of a vector compared as if zero-padded
At(w, i) == IF i <= Len(w) THEN w[i] ELSE 0

PaddedEqual(a, b) == \A i \in 1..Max2(Len(a), Len(b)) : At(a, i) = At(b, i)

\* a <= b in the lexicographic order of zero-padded vectors
LexLeq(a, b) ==
    \/ PaddedEqual(a, b)
    \/ \E i \in 1..Max2(Len(a), Len(b)) :
          /\ At(a, i) < At(b, i)
          /\ \A j \in 1..(i - 1) : At(a, j) = At(b, j)

Ids(list) == [i \in DOMAIN list |-> list[i].id]

\* the returned list holds the same objects, each with its own vector (up to
\* the zeros the comparator appended), in non-decreasing order
SortedPermutation(out, in) ==
    /\ Len(out) = Len(in)
    /\ Range(Ids(out)) = Range(Ids(in))
    /\ \A i \in DOMAIN out : \A j \in DOMAIN in :
          out[i].id = in[j].id => PaddedEqual(out[i].weights, in[j].weights)
    /\ \A i, j \in DOMAIN out : i < j => LexLeq(out[i].weights, out[j].weights)

DistinctVectors(list) ==
    \A i, j \in DOMAIN list : i # j => list[i].weights # list[j].weights

DistinctPaddedVectors(list) ==
    \A i, j \in DOMAIN list :
        i # j => ~PaddedEqual(list[i].weights, list[j].weights)

\* C9 (as stated): sortByWeights returns a permutation of its input in
\* non-decreasing zero-padded lexicographic order, and for elements with
\* pairwise distinct vectors the result is the same for every input order.
C9_AsStated ==
    /\ 1 \in wSorted => SortedPermutation(wList, wIn)
    /\ 2 \in wSorted => SortedPermutation(wPerm, wPermIn)
    /\ (wSorted = {1, 2} /\ DistinctVectors(wIn)) => Ids(wList) = Ids(wPerm)

\* C9 (amended): sortByWeights returns a permutation of its input in
\* non-decreasing zero-padded lexicographic order, and for elements whose
\* vectors are pairwise distinct after zero-padding the result is the same
\* for every input order.
C9_SortByWeights ==
    /\ 1 \in wSorted => SortedPermutation(wList, wIn)
    /\ 2 \in wSorted => SortedPermutation(wPerm, wPermIn)
    /\ (wSorted = {1, 2} /\ DistinctPaddedVectors(wIn)) => Ids(wList) = Ids(wPerm)

\* two different orders of an input with vectors of unequal length, pairwise
\* distinct after padding, have been sorted, the second one being unsorted
C9_Witness ==
    /\ wSorted = {1, 2}
    /\ wPermIn # wIn
    /\ DistinctPaddedVectors(wIn)
    /\ \E i, j \in DOMAIN wPermIn :
          /\ i < j
          /\ ~LexLeq(wPermIn[i].weights, wPermIn[j].weights)
          /\ Len(wPermIn[i].weights) # Len(wPermIn[j].weights)

\* ------------------------------------------------------------------------
\* Claims about generate() (Spec) and run() (SpecRun)
\* ------------------------------------------------------------------------
\* the fragments of a bucket in the order of its content
Fragments(path) == Flatten(outputFileList[path].content)

GenerateCompleted == pc \in {"generate", "write"} /\ GenerateFulfilled

\* C1: after generate() completes, the content of every output bucket is the
\* concatenation of its fragments in non-decreasing WeightVector order, for
\* every completion order of the concurrent tasks.
C1_ContentInWeightOrder ==
    GenerateCompleted =>
        \A path \in DOMAIN outputFileList :
            LET frags == Fragments(path)
            IN \A i, j \in DOMAIN frags :
                  i < j => LexLeq(frags[i].categoryUID, frags[j].categoryUID)

\* the interfaces of category catId that resolve to the path
InterfacesAt(catId, path) ==
    {id \in Range(RemoteInterfaces(catId)) : OutputFilePath(catId, id) = path}

\* the fragments one category task contributed to a bucket, in content order
FragmentsOf(path, uid) ==
    SelectSeq(Fragments(path), LAMBDA frag : frag.categoryUID = uid)

\* C2: for one category whose interfaces resolve to the same output path, the
\* bucket content holds the declarations of all of them in ascending
\* interface order, whichever interface task completes first.
C2_InterfacesAscending ==
    \A key \in DOMAIN idTask :
        (idTask[key].pc = "done" /\ <<key[1], key[2], key[3]>> \in catDone) =>
            \A path \in DOMAIN outputFileList :
                LET frags == FragmentsOf(path, Weights(key[1], key[2], key[3], key[4], 1))
                IN /\ {frags[i].id : i \in DOMAIN frags}
                        = InterfacesAt(idTask[key].catId, path)
                   /\ \A i, j \in DOMAIN frags : i < j => frags[i].id < frags[j].id

\* a category with two interfaces on one path has been generated although
\* its second interface task completed before its first
C2_Witness ==
    /\ GenerateCompleted
    /\ \E key \in DOMAIN idTask :
          /\ idTask[key].pc = "done"
          /\ idTask[key].outOfOrder
          /\ \E path \in DOMAIN outputFileList :
                Len(FragmentsOf(path, Weights(key[1], key[2], key[3], key[4], 1))) >= 2

\* C3: within one run at most one request to /api/project/get and at most one
\* to /api/plugin/export is issued per (serverUrl, token).
C3_SingleFlight ==
    \A k \in DOMAIN requests :
        k[1] \in {"project/get", "plugin/export"} => requests[k] <= 1

\* C4: if any branch of the fan-out fails, generate() fails as a whole and the
\* run never invokes write().
C4_FailureFailsRun ==
    AnyBranchFailed =>
        /\ pc # "write"
        /\ pc # "generate" => pc = "catch"

\* run() is in its catch block after a branch failed, and a sibling branch
\* went on to create its bucket
C4_Witness ==
    /\ pc = "catch"
    /\ AnyBranchFailed
    /\ DOMAIN outputFileList # {}

\* C5: at the end of every run, successful or failed, every adapter server
\* that prepare() started has been stopped.
C5_AdaptersStopped ==
    runPc \in {"done", "rejected"} =>
        \A s \in RunServers : adapter[s] \notin {"binding", "listening"}

FailEvents == {"prepare.fail", "generate.fail", "write.fail"}

\* C6: when prepare(), generate() or write() fails, destroy() is invoked and
\* awaited before the fail hook runs and before the error is reported.
C6_TeardownBeforeFailHook ==
    \A f, i \in DOMAIN log :
        (log[f] \in FailEvents /\ f < i /\ log[i] \in {"fail", "error"}) =>
            \E j, k \in DOMAIN log :
                /\ f < j /\ j < k /\ k < i
                /\ log[j] = "destroy"
                /\ log[k] = "destroyed"

\* a run in which write() failed has called the fail hook and reported
C6_Witness ==
    /\ runPc = "done"
    /\ "write.fail" \in Range(log)
    /\ "fail" \in Range(log)
    /\ "error" \in Range(log)

FilledSlots(t) == {i \in DOMAIN t.res : t.res[i] # NoCode}

C11_Idempotent == sPhase = "twice" => sTwice = sOnce

IntegerNames ==
    {<<"b", "y", "t", "e">>, <<"s", "h", "o", "r", "t">>, <<"i", "n", "t">>,
     <<"l", "o", "n", "g">>}

NumberNames ==
    {<<"f", "l", "o", "a", "t">>, <<"d", "o", "u", "b", "l", "e">>,
     <<"b", "i", "g", "d", "e", "c", "i", "m", "a", "l">>}

\* the name the claim gives a type name under the override table
ClaimedTypeName(name, table) ==
    LET lower == ToLowerCase(name)
        overrides == {i \in DOMAIN table : ToLowerCase(table[i].key) = lower}
    IN IF overrides # {} THEN table[CHOOSE i \in overrides : TRUE].value
       ELSE IF lower \in IntegerNames THEN <<"i", "n", "t", "e", "g", "e", "r">>
       ELSE IF lower \in NumberNames THEN <<"n", "u", "m", "b", "e", "r">>
       ELSE IF lower = <<"c", "h", "a", "r">> THEN <<"s", "t", "r", "i", "n", "g">>
       ELSE IF lower = <<"v", "o", "i", "d">> THEN <<"n", "u", "l", "l">>
       ELSE lower

ClaimedType(type, table) ==
    [form |-> type.form,
     names |-> [i \in DOMAIN type.names |-> ClaimedTypeName(type.names[i], table)]]

RECURSIVE TypesMapped(_, _, _)
\* every node of `out` has the claimed type of the node of `in` it comes from
TypesMapped(in, out, table) ==
    LET Pairwise(ins, outs) ==
            /\ Len(ins) = Len(outs)
            /\ \A i \in DOMAIN outs : TypesMapped(ins[i], outs[i], table)
    IN /\ out.type = ClaimedType(in.type, table)
       /\ \A e \in Range(out.props.entries) :
             \E f \in Range(in.props.entries) :
                /\ Trim(f.name) = e.name
                /\ TypesMapped(f.value, e.value, table)
       /\ IF out.items.form = "single" /\ in.items.form = "list"
          THEN TypesMapped(in.items.list[1], out.items.list[1], table)
          ELSE Pairwise(in.items.list, out.items.list)
       /\ Pairwise(in.oneOf, out.oneOf)
       /\ Pairwise(in.anyOf, out.anyOf)
       /\ Pairwise(in.allOf, out.allOf)

RECURSIVE HasMappedNode(_, _)
HasMappedNode(node, names) ==
    LET Some(list) == \E i \in DOMAIN list : HasMappedNode(list[i], names)
    IN \/ node.type.form # "none" /\ Range(node.type.names) \subseteq names
       \/ \E e \in Range(node.props.entries) : HasMappedNode(e.value, names)
       \/ Some(node.items.list)
       \/ Some(node.oneOf)

IsArrayNode(node) == node.type = TypeOf(ArrayName)

RECURSIVE NoTupleLeft(_)
\* no array-typed node carries a non-empty items list
NoTupleLeft(node) ==
    LET All(list) == \A i \in DOMAIN list : NoTupleLeft(list[i])
    IN /\ IsArrayNode(node) => ~(node.items.form = "list" /\ node.items.list # <<>>)
       /\ \A e \in Range(node.props.entries) : NoTupleLeft(e.value)
       /\ All(node.items.list)
       /\ All(node.oneOf)
       /\ All(node.anyOf)
       /\ All(node.allOf)

\* C13: after processJsonSchema a node whose resulting type is array and
\* whose items was a non-empty list has the normalized first element as its
\* items, and no array-typed node is left with a non-empty items list.
C13_TupleCollapse ==
    sPhase = "once" =>
        /\ (IsArrayNode(sOnce) /\ sIn.items.form = "list" /\ sIn.items.list # <<>>) =>
              sOnce.items = [form |-> "single",
                             list |-> <<processJsonSchema(sIn.items.list[1], sTable)>>]
        /\ NoTupleLeft(sOnce)

RECURSIVE SubSchema(_, _)
\* the schema at a path of property names all of which exist
SubSchema(node, path) ==
    IF path = <<>> THEN node
    ELSE SubSchema(GetEntry(node.props.entries, Head(path)), Tail(path))

RECURSIVE PathExists(_, _)
PathExists(node, path) ==
    \/ path = <<>>
    \/ /\ Head(path) \in Range(EntryNames(node.props.entries))
       /\ PathExists(GetEntry(node.props.entries, Head(path)), Tail(path))

C16_CallerSchemaUnchanged ==
    sPhase = "typed" =>
        /\ sCaller = sIn
        /\ Len(sCodes) = 2 => sCodes[2] = sCodes[1]

RECURSIVE Synthesizable(_)
\* no node carries a removed keyword, every object node is closed
Synthesizable(node) ==
    LET All(list) == \A i \in DOMAIN list : Synthesizable(list[i])
    IN /\ node.keywords \cap RemovedKeywords = {}
       /\ node.type = TypeOf(ObjectName) => node.additionalProperties = "false"
       /\ \A e \in Range(node.props.entries) : Synthesizable(e.value)
       /\ All(node.items.list)
       /\ All(node.oneOf)
       /\ All(node.anyOf)
       /\ All(node.allOf)

\* C17: after jsonSchemaToJSTTJsonSchema no node reachable through
\* properties, items, oneOf, anyOf or allOf carries title, id, minItems,
\* maxItems or default, and every object node has additionalProperties false.
C17_SynthesisPass == sPhase = "jstt" => Synthesizable(sJstt)

\* a nested schema that carried every keyword, with an object node that
\* allowed additional properties, has gone through the pass
C17_Witness ==
    /\ sPhase = "jstt"
    /\ sJsttIn # sIn
    /\ sJsttIn.type = TypeOf(ObjectName)
    /\ sJsttIn.props.entries # <<>>
    /\ sJsttIn.props.entries[1].value.items.list # <<>>
    /\ ~Synthesizable(sJsttIn)

\* ------------------------------------------------------------------------
\* Claims about the names (SpecNames)
\* ------------------------------------------------------------------------
\* one '/'-separated segment with each {param} replaced by By + PascalCase(param)
ClaimedSegment(segment) == pascalCase(ReplaceParams(segment, 1))

\* the PathPart as the claim builds it, segment by segment: the leading
\* slashes and a leading api/ segment dropped, the rest concatenated
ClaimedPathPart(path) ==
    LET all == Split(StripSlashes(path), "/")
        rest == IF Len(all) > 1 /\ all[1] = Chars("api") THEN Tail(all) ELSE all
    IN Flatten([i \in DOMAIN rest |-> ClaimedSegment(rest[i])])

IsExample(method, path, name) ==
    (nMethod = Chars(method) /\ nPath = Chars(path) /\ nFunc # NoName) => nFunc = Chars(name)

\* C14: the function name is lowercase(method) + PathPart + Api, the type
\* names are PascalCase(method) + PathPart + RequestType / ResponseType with
\* the same PathPart (leading '/' and api/ segment stripped, {param} replaced
\* by By + PascalCase(param), PascalCase of the segments concatenated); the
\* two example interfaces get the names getCustomerV1RegionListDwgApi and
\* getSystemV1MenuQueryByMenuIdApi.
C14_Names ==
    /\ nMethod # <<>> =>
          /\ nFunc # NoName =>
                nFunc = ToLowerCase(nMethod) \o ClaimedPathPart(nPath) \o Chars("Api")
          /\ nReq # NoName =>
                nReq = pascalCase(nMethod) \o ClaimedPathPart(nPath) \o Chars("RequestType")
          /\ nRes # NoName =>
                nRes = pascalCase(nMethod) \o ClaimedPathPart(nPath) \o Chars("ResponseType")
    /\ IsExample("GET", "/api/customer/v1/region/listDwg", "getCustomerV1RegionListDwgApi")
    /\ IsExample("GET", "/api/system/v1/menu/query/{menuId}",
                 "getSystemV1MenuQueryByMenuIdApi")

\* the three names of the second example interface have been generated
C14_Witness ==
    /\ nMethod = Chars("GET")
    /\ nPath = Chars("/api/system/v1/menu/query/{menuId}")
    /\ nFunc = Chars("getSystemV1MenuQueryByMenuIdApi")
    /\ nReq = Chars("GetSystemV1MenuQueryByMenuIdRequestType")
    /\ nRes = Chars("GetSystemV1MenuQueryByMenuIdResponseType")

\* ------------------------------------------------------------------------
\* Claims about the request function (SpecRequest)
\* ------------------------------------------------------------------------
\* the response schema the interface declares, if it declares one
DeclaredResponseSchema(interfaceInfo) ==
    IF /\ interfaceInfo.res_body_type = "json"
       /\ interfaceInfo.res_body_is_json_schema
       /\ interfaceInfo.res_body.text = "object"
    THEN [declared |-> TRUE, type |-> interfaceInfo.res_body.type,
          content |-> interfaceInfo.res_body.content]
    ELSE [declared |-> FALSE, type |-> NoValue, content |-> NoValue]

\* C18: an interface is flagged as a file download exactly when its declared
\* response schema has type object and content application/octet-stream or
\* */*; the request function of a flagged interface, with or without path
\* parameters, passes no request-parameters argument and asks for a blob.
C18_FileDownload ==
    LET schema == DeclaredResponseSchema(rIface)
    IN /\ rPhase # "in" =>
             rFlag = /\ schema.declared
                     /\ schema.type = "object"
                     /\ schema.content \in {"application/octet-stream", "*/*"}
       /\ (rPhase = "generated" /\ rFlag) =>
             /\ "params" \notin Range(rArgs)
             /\ rArgs[Len(rArgs)] = "{ responseType: 'blob' }"

\* ------------------------------------------------------------------------
\* Claims about the interface tasks (SpecInterface)
\* ------------------------------------------------------------------------
Unparseable(body) == body.text = "unparseable"

\* C19 as stated: no run is fulfilled when an interface has a request or
\* response body that is an unparseable JSON/JSON5 payload.
C19_AsStated ==
    iResult = "fulfilled" =>
        \A i \in DOMAIN iList :
            ~Unparseable(iList[i].req_body_other) /\ ~Unparseable(iList[i].res_body)

\* the request body is read: POST-like method, req_body_type json
ReadsRequestBody(interfaceInfo) ==
    interfaceInfo.method \notin {"GET", "OPTIONS", "HEAD"}
        /\ interfaceInfo.req_body_type = "json"

\* the response body is read: res_body_type json
ReadsResponseBody(interfaceInfo) == interfaceInfo.res_body_type = "json"

\* C19: an interface whose request body (POST-like method, req_body_type
\* json) or response body (res_body_type json) is an unparseable JSON/JSON5
\* payload makes generate() fail: no run is fulfilled with such an interface,
\* and a fulfilled run returns the code of every interface.
C19_MalformedFails ==
    iResult = "fulfilled" =>
        /\ \A i \in DOMAIN iList :
              /\ ReadsRequestBody(iList[i]) => ~Unparseable(iList[i].req_body_other)
              /\ ReadsResponseBody(iList[i]) => ~Unparseable(iList[i].res_body)
        /\ Range(iCodes) = DOMAIN iList

\* the run has failed on the unparseable response template of its first
\* interface while the second interface was generated
C19_Witness ==
    /\ iResult = "rejected"
    /\ Len(iList) = 2
    /\ ReadsResponseBody(iList[1])
    /\ ~iList[1].res_body_is_json_schema
    /\ Unparseable(iList[1].res_body)
    /\ iTask[1] = "rejected"
    /\ iTask[2] = "fulfilled"

\* ------------------------------------------------------------------------
\* Claims about the upstream requests (SpecFetch)
\* ------------------------------------------------------------------------
\* a non-success status, a wrong content type, or a non-zero error code in
\* the payload
UpstreamError(response) ==
    \/ ~(response.status >= 200 /\ response.status < 300)
    \/ response.contentType # JsonContentType
    \/ response.body = "errcode"

\* the fetch of request k is over
Answered(k) == k < fCall \/ (k = fCall /\ fOutcome # "pending")

\* C20: every upstream error (non-success status, wrong content type,
\* non-zero error code in the payload) makes the fetch fail with an error
\* that carries the request URL and parameters, the run fails on it, and the
\* request is issued exactly once.
C20_UpstreamErrorFails ==
    \A k \in DOMAIN fResponses :
        /\ fSent[k] <= 1
        /\ (Answered(k) /\ UpstreamError(fResponses[k])) =>
              /\ fCall = k
              /\ fOutcome = "failed"
              /\ fError = Error(TRUE, TRUE)
              /\ fSent[k] = 1

\* ------------------------------------------------------------------------
\* Claims about the Apifox export request (SpecApifox)
\* ------------------------------------------------------------------------
\* C21: a run whose apifox server configuration carries no project id
\* (neither apifoxProjectId nor a full export url) fails with a
\* configuration error before any request: no export request is sent.
C21_MissingProjectIdFails ==
    (aConfig.apifoxProjectId = <<>> /\ ~IsFullExportUrl(aConfig.serverUrl)) =>
        /\ aRequests = <<>>
        /\ aPc \in {"prepare", "start", "failed"}

\* C22: with the full export url as serverUrl and apifoxProjectId unset the
\* export request goes to exactly that url with ?locale=zh-CN appended, and
\* no missing-project-id error is raised.
C22_FullUrlUsed ==
    (/\ Includes(aConfig.serverUrl, Chars("/v1/projects/"))
     /\ Includes(aConfig.serverUrl, Chars("/export-openapi"))
     /\ aConfig.apifoxProjectId = <<>>) =>
        /\ aPc # "failed"
        /\ aPc = "posted" => aRequests = <<aConfig.serverUrl \o Chars("?locale=zh-CN")>>

\* the export request of a server configured by its full url alone has been
\* sent
C22_Witness ==
    /\ aPc = "posted"
    /\ aConfig.apifoxProjectId = <<>>
    /\ aConfig.serverUrl = Chars("https://api.apifox.com/v1/projects/42/export-openapi")
    /\ Len(aRequests) = 1

\* ------------------------------------------------------------------------
\* Claims about write() (SpecWrite)
\* ------------------------------------------------------------------------
\* C23: write() never overwrites an existing request-function file: a file
\* it writes was absent when the task checked, no task in types-only mode
\* writes it, and a file that existed before write() keeps its content.
C23_NeverOverwrites ==
    /\ \A w \in wWrites : w.absentAtCheck /\ ~wBuckets[w.bucket].typesOnly
    /\ \A p \in RequestPaths : wFs0[p] # Absent => wFs[p] = wFs0[p]

\* ------------------------------------------------------------------------
\* Claims about getRequestDataJsonSchema (SpecParams)
\* ------------------------------------------------------------------------
HasProperty(jsonSchema, name) == name \in Range(EntryNames(jsonSchema.props.entries))

PropertyOf(jsonSchema, name) == GetEntry(jsonSchema.props.entries, name)

TrimmedNames(items) == {Trim(items[i].name) : i \in DOMAIN items}

\* C24 (as stated): every query parameter and every path parameter is a
\* property of the request schema under its name, and the name of every path
\* parameter is in the required list.
C24_AsStated ==
    qPc = "done" =>
        /\ \A i \in DOMAIN qIface.req_query :
              HasProperty(qSchema, qIface.req_query[i].name)
        /\ \A i \in DOMAIN qIface.req_params :
              /\ HasProperty(qSchema, qIface.req_params[i].name)
              /\ qIface.req_params[i].name \in Range(qSchema.required)

\* C24 (amended): under its name with the surrounding white space removed,
\* every body property, query parameter and path parameter is a property of
\* the request schema, holding the schema of the last source (in the order
\* body, query, path) that has the name; the trimmed name of every path
\* parameter is in the required list whatever its declared required flag.
C24_MergedByKey ==
    qPc = "done" =>
        LET body == BodySchema(qIface, <<>>).schema
            bodyNames == Range(EntryNames(body.props.entries))
            queryNames == TrimmedNames(qIface.req_query)
            pathNames == TrimmedNames(qIface.req_params)
        IN /\ \A n \in pathNames :
                 /\ HasProperty(qSchema, n)
                 /\ PropertyOf(qSchema, n) = PropSchema(Chars("integer"))
                 /\ n \in Range(qSchema.required)
           /\ \A n \in queryNames \ pathNames :
                 /\ HasProperty(qSchema, n)
                 /\ PropertyOf(qSchema, n) = PropSchema(Chars("string"))
           /\ \A n \in bodyNames \ (queryNames \cup pathNames) :
                 /\ HasProperty(qSchema, n)
                 /\ PropertyOf(qSchema, n) = PropertyOf(body, n)
           /\ Range(EntryNames(qSchema.props.entries))
                 = bodyNames \cup queryNames \cup pathNames

\* a form body with a and b, a query parameter a, a path parameter " a"
\* declared not required: a is the path parameter's property and required
C24_Witness ==
    /\ qPc = "done"
    /\ qIface.method = "POST"
    /\ qIface.req_body_type = "form"
    /\ qIface.req_query = <<[name |-> Chars("a"), required |-> "0", type |-> <<>>]>>
    /\ qIface.req_params = <<[name |-> Chars(" a"), required |-> "0",
                              type |-> Chars("integer")]>>
    /\ PropertyOf(qSchema, Chars("a")) = PropSchema(Chars("integer"))
    /\ PropertyOf(qSchema, Chars("b")) = PropSchema(Chars("string"))
    /\ qSchema.required = <<Chars("a"), Chars("a")>>

\* ------------------------------------------------------------------------
\* Claims about the map of generate() over a fetched list (SpecPrefix)
\* ------------------------------------------------------------------------
\* C25: a fetched interface is immutable within a run: no step of
\* generate() changes the path of an interface object the fetchers
\* returned.
C25_FetchedUnchanged ==
    \A i \in DOMAIN xFetched : xHeap[i].path = xFetched[i].path

\* the interface of the list that came from the fetched interface i
FromFetched(r, i) == xHeap[r]._id = xFetched[i]._id

\* C26: with pathPrefix configured, a path that starts with the prefix has
\* lost exactly that prefix once and begins with "/" when names are
\* generated, and a path that does not start with the prefix is unchanged.
C26_PrefixStripped ==
    (xPc = "done" /\ xConfig.pathPrefix # <<>>) =>
        \A k \in DOMAIN xList : \A i \in DOMAIN xFetched :
            FromFetched(xList[k], i) =>
                LET before == xFetched[i].path
                    after == xHeap[xList[k]].path
                    rest == SubSeq(before, Len(xConfig.pathPrefix) + 1, Len(before))
                IN /\ StartsWith(before, xConfig.pathPrefix) =>
                          /\ after \in {rest, <<"/">> \o rest}
                          /\ Head(after) = "/"
                   /\ ~StartsWith(before, xConfig.pathPrefix) => after = before
                   /\ xNames[k] = getRequestFunctionName(Chars("GET"), after)

\* /api/api/user with the prefix /api is named from /api/user, and /apiuser
\* from /user
C26_Witness ==
    /\ xPc = "done"
    /\ xConfig.pathPrefix = Chars("/api")
    /\ Len(xList) = 2
    /\ xFetched[1].path = Chars("/api/api/user")
    /\ xFetched[2].path = Chars("/apiuser")
    /\ \E k \in DOMAIN xList : xHeap[xList[k]].path = Chars("/api/user")
    /\ \E k \in DOMAIN xList : xHeap[xList[k]].path = Chars("/user")

\* ------------------------------------------------------------------------
\* Claims about the output buckets (SpecBuckets)
\* ------------------------------------------------------------------------
\* C27: the effective configuration and the request-function and hook-maker
\* paths recorded for an output bucket do not depend on completion order:
\* two runs of the same category tasks, whatever order their tasks complete
\* in, have recorded the same values for every bucket when all tasks are
\* done.
C27_OrderIndependent ==
    (\A r \in Runs : kDone[r] = DOMAIN kTasks) => kBuckets[1] = kBuckets[2]

\* ------------------------------------------------------------------------
\* Claims about the request call (SpecCall)
\* ------------------------------------------------------------------------
\* a {name} placeholder: an opening brace, at least one character that is no
\* closing brace, a closing brace
IsPlaceholderAt(path, i, j) ==
    /\ path[i] = "{"
    /\ path[j] = "}"
    /\ j > i + 1
    /\ \A k \in (i + 1)..(j - 1) : path[k] # "}"

\* the text a segment of the path is expected to become
ExpectedSegment(segment) ==
    LET opens == {i \in DOMAIN segment :
                     \E j \in DOMAIN segment : IsPlaceholderAt(segment, i, j)}
    IN IF opens = {} THEN segment
       ELSE LET i == CHOOSE o \in opens : TRUE
                j == CHOOSE c \in DOMAIN segment : IsPlaceholderAt(segment, i, c)
                name == SubSeq(segment, i + 1, j - 1)
            IN SubSeq(segment, 1, i - 1) \o Chars("${params.")
                   \o (IF \A k \in DOMAIN name : name[k] \in Digits
                       THEN Chars("param_") \o name ELSE name)
                   \o Chars("}") \o SubSeq(segment, j + 1, Len(segment))

\* C28: in the request function of an interface that is no file download,
\* params is passed as the request-parameters argument exactly when the path
\* has no {param} placeholder; with a placeholder the url is a template
\* string in which every {name} has become ${params.name}, a numeric name n
\* ${params.param_n}, and no request-parameters argument is passed.
C28_PathParams ==
    (cPc = "done" /\ ~cDownload) =>
        LET placeholder == \E i, j \in DOMAIN cPath : IsPlaceholderAt(cPath, i, j)
            segments == Split(cPath, "/")
        IN /\ ("params" \in Range(cCall.args)) <=> ~placeholder
           /\ ~placeholder => cCall = [url |-> DoubleQuote \o cPath \o DoubleQuote,
                                       args |-> <<"path", "params">>]
           /\ placeholder =>
                 /\ cCall.args = <<"path">>
                 /\ cCall.url = Backtick
                        \o Join([k \in DOMAIN segments |-> ExpectedSegment(segments[k])],
                                <<"/">>)
                        \o Backtick

\* /user/{12} becomes the template /user/${params.param_12} and params is not passed
C28_Witness ==
    /\ cPc = "done"
    /\ ~cDownload
    /\ cPath = Chars("/user/{12}")
    /\ cCall = [url |-> Backtick \o Chars("/user/${params.param_12}") \o Backtick, args |-> <<"path">>]

\* ------------------------------------------------------------------------
\* Claims about the hooks of run() (SpecRun)
\* ------------------------------------------------------------------------
Occurrences(event) == Cardinality({i \in DOMAIN log : log[i] = event})

\* C29: in a run that has ended, the success hook and the fail hook were not
\* both invoked, destroy() was invoked exactly once, and the complete hook
\* was invoked exactly once, after the success or fail hook; also when a
\* hook itself fails.
C29_HooksOnce ==
    runPc \in {"done", "rejected"} =>
        /\ ~(Occurrences("success") > 0 /\ Occurrences("fail") > 0)
        /\ Occurrences("destroy") = 1
        /\ Occurrences("complete") = 1
        /\ \A i, j \in DOMAIN log :
              (log[i] \in {"success", "fail"} /\ log[j] = "complete") => i < j

\* ------------------------------------------------------------------------
\* Claims about cleanOutputDirectory (SpecClean)
\* ------------------------------------------------------------------------
\* C30: when cleanOutputDirectory has returned without a file system error,
\* no previously generated file is left under an existing outputDir, and a
\* file at requestFunctionFilePath that existed before the call exists with
\* the same content, inside or outside outputDir.
C30_KeepsRequestFile ==
    (dPc = "returned" /\ ~dWarned) =>
        /\ dDirExists => \A f \in GeneratedFiles : dFs[f] = Absent
        /\ dFs0[dConfig.requestFunctionFilePath] # Absent =>
              dFs[dConfig.requestFunctionFilePath] = dFs0[dConfig.requestFunctionFilePath]

====
